---- MODULE Spec2Model ----
(***************************************************************************)
(* Model of the Taddy API n8n node: the batch loop of TaddyApi.execute,    *)
(* the eight operation handlers, the GraphQL transport wrapper, the field  *)
(* selection of the query builder, the response normalizers and the        *)
(* parameter validators.                                                   *)
(*                                                                         *)
(* JavaScript objects are functions from field names to values; an absent  *)
(* field is a name outside the DOMAIN.  A spread {a: x, ...b} is b @@ a    *)
(* (the later entry wins).  Strings that the code assembles are sequences  *)
(* of their parts; a rendered field selection is a sequence of lines, each *)
(* with its nesting depth.                                                 *)
(***************************************************************************)
EXTENDS Integers, Sequences, FiniteSets, TLC

VARIABLES
    continueOnFail, \* host setting this.continueOnFail()
    nItems,         \* items.length of this.getInputData()
    i,              \* loop index of execute (0-based)
    pc,             \* position of execute: in the loop, returned or thrown
    done,           \* per processed item: its parameters, what its handler did, how it ended
    returnData,     \* INodeExecutionData[] built by execute
    thrown,         \* the error execute rejected with, or NoError
    output,         \* what execute resolved with, or NoOutput
    args,           \* arguments of the function under test (pure-function harness)
    called,         \* which function was applied, with its extra arguments
    result          \* what it returned or threw

execVars == <<continueOnFail, nItems, i, pc, done, returnData, thrown, output>>
pureVars == <<args, called, result>>
vars == <<continueOnFail, nItems, i, pc, done, returnData, thrown, output,
          args, called, result>>

----------------------------------------------------------------------------
(* Bounds of the model *)

MaxFields == 3
MaxEpisodeFields == 2
MaxList == 2
MaxMinorList == 1
MaxDetails == 2
MaxItems == 2
MaxErrors == 2
MaxPage == 27

----------------------------------------------------------------------------
(* Helpers standing for JavaScript built-ins *)

BSeq(S, n) == UNION {[1..k -> S] : k \in 0..n}

Includes(s, x) == \E k \in DOMAIN s : s[k] = x

Count(s, x) == Cardinality({k \in DOMAIN s : s[k] = x})

----------------------------------------------------------------------------
(* JavaScript values: undefined, null, an object, an array, a number, NaN *)

Undefined == [k |-> "undefined"]
Null == [k |-> "null"]
Obj(f) == [k |-> "object", v |-> f]
Arr(s) == [k |-> "array", v |-> s]
Num(n) == [k |-> "number", v |-> n]
NaN == [k |-> "NaN"]

\* o.key of an object given as a function: undefined when the key is absent
Get(o, key) == IF key \in DOMAIN o THEN o[key] ELSE Undefined

\* !v is true exactly for undefined, null, NaN and 0
Truthy(v) ==
    CASE v.k \in {"undefined", "null", "NaN"} -> FALSE
      [] v.k = "number" -> v.v # 0
      [] OTHER -> TRUE

IsArray(v) == v.k = "array"

EmptyObject == [x \in {} |-> x]

\* a property whose value is undefined is left out of the emitted JSON
Prop(o, key, as) == IF key \in DOMAIN o THEN as :> o[key] ELSE EmptyObject

Returned(v) == [threw |-> FALSE, value |-> v]
Threw(m) == [threw |-> TRUE, message |-> m]

\* An error message: the template literal of the source and the values it embeds.
Msg(template) == [template |-> template]

----------------------------------------------------------------------------
(* Strings the code inspects character by character are sequences of       *)
(* one-character strings.                                                  *)

Rep(c, n) == [k \in 1..n |-> c]

Digits == {"0", "1", "2", "3", "4", "5", "6", "7", "8", "9"}

HexChars == Digits \cup {"a", "b", "c", "d", "e", "f", "A", "B", "C", "D", "E", "F"}

\* what String.prototype.trim removes
Whitespace == {" ", "\t", "\n", "\r", "\f"}

RECURSIVE TrimStart(_)
TrimStart(str) ==
    IF str # <<>> /\ Head(str) \in Whitespace THEN TrimStart(Tail(str)) ELSE str

RECURSIVE TrimEnd(_)
TrimEnd(str) ==
    IF str # <<>> /\ str[Len(str)] \in Whitespace
    THEN TrimEnd(SubSeq(str, 1, Len(str) - 1)) ELSE str

Trim(str) == TrimEnd(TrimStart(str))

\* str.startsWith(prefix)
StartsWith(str, prefix) ==
    Len(str) >= Len(prefix) /\ SubSeq(str, 1, Len(prefix)) = prefix

\* str.split(sep) for a one-character separator: always at least one piece
RECURSIVE Split(_, _)
Split(str, sep) ==
    IF \A k \in DOMAIN str : str[k] # sep THEN <<str>>
    ELSE LET at == CHOOSE k \in DOMAIN str :
                      str[k] = sep /\ \A j \in 1..(k - 1) : str[j] # sep
         IN  <<SubSeq(str, 1, at - 1)>> \o Split(SubSeq(str, at + 1, Len(str)), sep)

\* pieces.join(sep)
RECURSIVE JoinWith(_, _)
JoinWith(pieces, sep) ==
    IF pieces = <<>> THEN <<>>
    ELSE IF Len(pieces) = 1 THEN pieces[1]
    ELSE pieces[1] \o sep \o JoinWith(Tail(pieces), sep)

----------------------------------------------------------------------------
(* Parameter validators (utils/validators) *)

\* /^[0-9a-f]{8}-[0-9a-f]{4}-[1-5][0-9a-f]{3}-[89ab][0-9a-f]{3}-[0-9a-f]{12}$/i
validateUuid(uuid) ==
    /\ Len(uuid) = 36
    /\ \A k \in 1..36 :
          CASE k \in {9, 14, 19, 24} -> uuid[k] = "-"
            [] k = 15 -> uuid[k] \in {"1", "2", "3", "4", "5"}
            [] k = 20 -> uuid[k] \in {"8", "9", "a", "b", "A", "B"}
            [] OTHER -> uuid[k] \in HexChars

\* /^https?:\/\/.+/ : the scheme, then one character that is no line break
validateUrl(url) ==
    \E scheme \in {<<"h", "t", "t", "p", ":", "/", "/">>,
                   <<"h", "t", "t", "p", "s", ":", "/", "/">>} :
        /\ StartsWith(url, scheme)
        /\ Len(url) > Len(scheme)
        /\ url[Len(scheme) + 1] \notin {"\n", "\r"}

\* /^\d+$/
validateItunesId(itunesId) ==
    itunesId # <<>> /\ \A k \in DOMAIN itunesId : itunesId[k] \in Digits

LowerLetters ==
    {"a", "b", "c", "d", "e", "f", "g", "h", "i", "j", "k", "l", "m",
     "n", "o", "p", "q", "r", "s", "t", "u", "v", "w", "x", "y", "z"}

UpperLetters ==
    {"A", "B", "C", "D", "E", "F", "G", "H", "I", "J", "K", "L", "M",
     "N", "O", "P", "Q", "R", "S", "T", "U", "V", "W", "X", "Y", "Z"}

\* /^[A-Z]{2}$/
validateCountryCode(countryCode) ==
    Len(countryCode) = 2 /\ \A k \in 1..2 : countryCode[k] \in UpperLetters

\* /^[a-z]{2}$/
validateLanguageCode(languageCode) ==
    Len(languageCode) = 2 /\ \A k \in 1..2 : languageCode[k] \in LowerLetters

Min(a, b) == IF a < b THEN a ELSE b

Max(a, b) == IF a > b THEN a ELSE b

\* n || default for an optional number: undefined, NaN and 0 give the default
OrDefault(n, default) == IF n.k = "number" /\ n.v # 0 THEN n.v ELSE default

validatePaginationParams_NoLowerClamp(page, limitPerPage) ==
    [page |-> Min(20, OrDefault(page, 1)),
     limitPerPage |-> Min(25, OrDefault(limitPerPage, 10))]

validatePaginationParams(page, limitPerPage) ==
    [page |-> Max(1, Min(20, OrDefault(page, 1))),
     limitPerPage |-> Max(1, Min(25, OrDefault(limitPerPage, 10)))]

\* sanitizeSearchTerm without the final trim()
sanitizeSearchTerm_NoTrim(term) ==
    LET kept(c) == c \notin {"\"", "\\", "\n", "\r", "\t"}
    IN  SelectSeq(term, kept)

\* term.replace(/["\\\n\r\t]/g, '').trim()
sanitizeSearchTerm(term) ==
    LET kept(c) == c \notin {"\"", "\\", "\n", "\r", "\t"}
    IN  Trim(SelectSeq(term, kept))

\* validateSearchTerm without the upper length limit
validateSearchTerm_NoUpperLimit(term) ==
    Len(sanitizeSearchTerm(term)) >= 1

validateSearchTerm(term) ==
    LET sanitized == sanitizeSearchTerm(term)
    IN  Len(sanitized) >= 1 /\ Len(sanitized) <= 500

\* new Date(x).getTime() is a number, or NaN when x is NaN or does not parse.
\* Applied here to the epoch seconds the search handler stores in the filters.
validateDateString(dateString) == dateString.k = "number"

validateDuration(duration) == duration > 0 /\ duration <= 86400

validateFilterValues(filters) ==
    LET has(key) == key \in DOMAIN filters
        each(key, valid(_), template) ==
            IF has(key)
            THEN LET bad(x) == ~valid(x)
                     rejected == SelectSeq(filters[key], bad)
                 IN  [k \in DOMAIN rejected |-> [template |-> template, value |-> rejected[k]]]
            ELSE <<>>
        date(key, text) ==
            IF has(key) /\ Truthy(filters[key]) /\ ~validateDateString(filters[key])
            THEN <<Msg(text)>> ELSE <<>>
        duration(key, text) ==
            IF has(key) /\ ~validateDuration(filters[key]) THEN <<Msg(text)>> ELSE <<>>
    IN  each("filterForCountries", validateCountryCode, "Invalid country code: ${country}")
        \o each("filterForLanguages", validateLanguageCode, "Invalid language code: ${language}")
        \o each("filterForSeriesUuids", validateUuid, "Invalid UUID: ${uuid}")
        \o date("filterForPublishedAfter", "Invalid published after date format")
        \o date("filterForPublishedBefore", "Invalid published before date format")
        \o date("filterForLastUpdatedAfter", "Invalid last updated after date format")
        \o date("filterForLastUpdatedBefore", "Invalid last updated before date format")
        \o duration("filterForDurationLessThan", "Invalid duration less than value")
        \o duration("filterForDurationGreaterThan", "Invalid duration greater than value")

----------------------------------------------------------------------------
(* Query builder: field selection (utils/graphqlQueries) *)

\* Object.keys(PODCAST_SERIES_FIELDS)
PODCAST_SERIES_FIELDS ==
    {"uuid", "name", "description", "imageUrl", "itunesId", "rssUrl", "websiteUrl",
     "language", "countries", "totalEpisodeCount", "popularityRank", "genres", "episodes"}

\* Object.keys(PODCAST_EPISODE_FIELDS)
PODCAST_EPISODE_FIELDS ==
    {"uuid", "name", "description", "audioUrl", "websiteUrl", "datePublished",
     "duration", "episodeNumber", "seasonNumber", "podcastSeries", "transcript", "chapters"}

episodeOnlyFields ==
    {"audioUrl", "websiteUrl", "datePublished", "duration", "episodeNumber", "seasonNumber"}

podcastOnlyFields == {"itunesId", "rssUrl", "websiteUrl", "totalEpisodesCount"}

\* One rendered line: its text and how deep it is nested below the entity's own fields.
Line(d, s) == [d |-> d, s |-> s]

\* fields.join('\n\t...'): one line per field
JoinLines(fs) == [k \in DOMAIN fs |-> Line(0, fs[k])]

\* selection.replace(/\n\t\t\t\t/g, '\n\t\t\t\t\t'): every line one level deeper
Indent(ls) == [k \in DOMAIN ls |-> Line(ls[k].d + 1, ls[k].s)]

\* if (!list.includes('uuid')) list.unshift('uuid')
EnsureUuid_Never(fs) == fs

EnsureUuid(fs) == IF Includes(fs, "uuid") THEN fs ELSE <<"uuid">> \o fs

buildFieldSelection(fields, contentType) ==
    LET keep(f) == ~ \/ (contentType = "podcastEpisodes" /\ f \in podcastOnlyFields)
                     \/ (contentType = "podcastSeries" /\ f \in episodeOnlyFields)
        validFields == SelectSeq(fields, keep)
    IN  JoinLines(EnsureUuid(validFields))

buildEpisodeFieldSelection(fields, includePodcastSeries, includeTranscript, includeChapters) ==
    LET availableFields == PODCAST_EPISODE_FIELDS \ {"podcastSeries", "transcript", "chapters"}
        avail(f) == f \in availableFields
        episodeFields == EnsureUuid(SelectSeq(fields, avail))
        basicPodcastFields ==
            <<"uuid", "name">>
            \o (IF Includes(fields, "podcastDescription") THEN <<"description">> ELSE <<>>)
            \o (IF Includes(fields, "podcastImageUrl") THEN <<"imageUrl">> ELSE <<>>)
            \o (IF Includes(fields, "itunesId") THEN <<"itunesId">> ELSE <<>>)
            \o (IF Includes(fields, "rssUrl") THEN <<"rssUrl">> ELSE <<>>)
    IN  JoinLines(episodeFields)
        \o (IF includePodcastSeries
            THEN <<Line(0, "podcastSeries {")>> \o Indent(JoinLines(basicPodcastFields))
                 \o <<Line(0, "}")>>
            ELSE <<>>)
        \o (IF includeTranscript THEN <<Line(0, "transcript")>> ELSE <<>>)
        \o (IF includeChapters
            THEN <<Line(0, "chapters {"), Line(1, "id"), Line(1, "title"),
                   Line(1, "startTimecode"), Line(0, "}")>>
            ELSE <<>>)

\* a podcast selection whose nested episodes keep their parent context
buildPodcastSeriesFieldSelection_WithParent(fields, includeGenres, includeEpisodes, episodeFields) ==
    LET availableFields == PODCAST_SERIES_FIELDS \ {"genres", "episodes"}
        avail(f) == f \in availableFields
        podcastFields == EnsureUuid(SelectSeq(fields, avail))
    IN  JoinLines(podcastFields)
        \o (IF includeGenres \/ Includes(fields, "genres")
            THEN <<Line(0, "genres {"), Line(1, "name"), Line(0, "}")>>
            ELSE <<>>)
        \o (IF includeEpisodes
            THEN <<Line(0, "episodes {")>>
                 \o Indent(buildEpisodeFieldSelection(episodeFields, TRUE, FALSE, FALSE))
                 \o <<Line(0, "}")>>
            ELSE <<>>)

buildPodcastSeriesFieldSelection(fields, includeGenres, includeEpisodes, episodeFields) ==
    LET availableFields == PODCAST_SERIES_FIELDS \ {"genres", "episodes"}
        avail(f) == f \in availableFields
        podcastFields == EnsureUuid(SelectSeq(fields, avail))
    IN  JoinLines(podcastFields)
        \o (IF includeGenres \/ Includes(fields, "genres")
            THEN <<Line(0, "genres {"), Line(1, "name"), Line(0, "}")>>
            ELSE <<>>)
        \o (IF includeEpisodes
            THEN <<Line(0, "episodes {")>>
                 \o Indent(buildEpisodeFieldSelection(episodeFields, FALSE, FALSE, FALSE))
                 \o <<Line(0, "}")>>
            ELSE <<>>)

----------------------------------------------------------------------------
(* Response normalizers (utils/responseProcessors) *)

\* list.forEach(x => results.push({type: tag, ...x}))
TagAll(list, tag) == [n \in DOMAIN list |-> list[n] @@ ("type" :> tag)]

\* if (searchData.<list>) searchData.<list>.forEach(...)
TagList(searchData, key, tag) ==
    IF Truthy(Get(searchData, key)) THEN TagAll(searchData[key].v, tag) ELSE <<>>

searchMetadataOf(searchData) ==
    LET details == Get(searchData, "responseDetails")
        responseDetails == IF Truthy(details) /\ Len(details.v) > 0
                           THEN details.v[1] ELSE EmptyObject
    IN  Prop(searchData, "searchId", "searchId")
        @@ Prop(responseDetails, "id", "responseId")
        @@ Prop(responseDetails, "totalCount", "totalCount")
        @@ Prop(responseDetails, "pagesCount", "pagesCount")

processSearchResults_MetadataLast(data) ==
    LET searchData == Get(data, "search")
    IN  IF ~Truthy(searchData) THEN Returned(Arr(<<>>))
        ELSE Returned(Arr(
                TagList(searchData.v, "podcastSeries", "podcast")
                \o TagList(searchData.v, "podcastEpisodes", "episode")
                \o TagList(searchData.v, "comicSeries", "comic")
                \o TagList(searchData.v, "creators", "creator")
                \o <<searchMetadataOf(searchData.v) @@ ("_type" :> "search_metadata")>>))

processSearchResults(data) ==
    LET searchData == Get(data, "search")
    IN  IF ~Truthy(searchData) THEN Returned(Arr(<<>>))
        ELSE Returned(Arr(
                <<searchMetadataOf(searchData.v) @@ ("_type" :> "search_metadata")>>
                \o TagList(searchData.v, "podcastSeries", "podcast")
                \o TagList(searchData.v, "podcastEpisodes", "episode")
                \o TagList(searchData.v, "comicSeries", "comic")
                \o TagList(searchData.v, "creators", "creator")))

processPodcastSeriesResult(data) ==
    LET podcast == Get(data, "getPodcastSeries")
    IN  IF ~Truthy(podcast) THEN Threw(Msg("Podcast not found"))
        ELSE Returned(Obj(podcast.v @@ ("type" :> "podcast")))

\* the lookup of an earlier revision, which read a root the query never asks for
processEpisodeResult_WrongRoot(data) ==
    LET episode == Get(data, "getEpisode")
    IN  IF ~Truthy(episode) THEN Threw(Msg("Episode not found"))
        ELSE Returned(Obj(episode.v @@ ("type" :> "episode")))

processEpisodeResult(data) ==
    LET episode == Get(data, "getPodcastEpisode")
    IN  IF ~Truthy(episode) THEN Threw(Msg("Episode not found"))
        ELSE Returned(Obj(episode.v @@ ("type" :> "episode")))

processLatestEpisodesResults_EmptyIsNotFound(data) ==
    LET latestData == Get(data, "getLatestPodcastEpisodes")
    IN  IF ~Truthy(latestData) THEN Returned(Arr(<<>>))
        ELSE IF IsArray(latestData) /\ Len(latestData.v) = 0
             THEN Threw(Msg("Episodes not found"))
        ELSE IF IsArray(latestData) THEN Returned(Arr(TagAll(latestData.v, "episode")))
        ELSE Returned(Arr(<<>>))

processLatestEpisodesResults(data) ==
    LET latestData == Get(data, "getLatestPodcastEpisodes")
    IN  IF ~Truthy(latestData) THEN Returned(Arr(<<>>))
        ELSE IF IsArray(latestData) THEN Returned(Arr(TagAll(latestData.v, "episode")))
        ELSE Returned(Arr(<<>>))

processTranscriptResult(data) ==
    LET transcriptItems == Get(data, "getEpisodeTranscript")
    IN  IF ~Truthy(transcriptItems) \/ ~IsArray(transcriptItems)
        THEN Threw(Msg("Transcript not found or not available"))
        ELSE Returned(Arr(TagAll(transcriptItems.v, "transcript_item")))

\* a normalizer that copies the rank identifier into the item itself
processPopularContentResults_Flattened(data) ==
    LET popularData == Get(data, "getPopularContent")
    IN  IF ~Truthy(popularData) THEN Returned(Arr(<<>>))
        ELSE LET metadata == Prop(popularData.v, "popularityRankId", "popularityRankId")
                 tag(list) == [n \in DOMAIN list |->
                                  list[n] @@ ("type" :> "podcast") @@ metadata]
             IN  Returned(Arr(IF Truthy(Get(popularData.v, "podcastSeries"))
                              THEN tag(popularData.v["podcastSeries"].v) ELSE <<>>))

processPopularContentResults(data) ==
    LET popularData == Get(data, "getPopularContent")
    IN  IF ~Truthy(popularData) THEN Returned(Arr(<<>>))
        ELSE LET metadata == Prop(popularData.v, "popularityRankId", "popularityRankId")
                 tag(list) == [n \in DOMAIN list |->
                                  list[n] @@ ("type" :> "podcast") @@ ("metadata" :> metadata)]
             IN  Returned(Arr(IF Truthy(Get(popularData.v, "podcastSeries"))
                              THEN tag(popularData.v["podcastSeries"].v) ELSE <<>>))

processTopChartsResults(data, operation) ==
    LET topChartsData == IF operation = "country" THEN Get(data, "getTopChartsByCountry")
                         ELSE Get(data, "getTopChartsByGenres")
    IN  IF ~Truthy(topChartsData) THEN Returned(Arr(<<>>))
        ELSE LET metadata == Prop(topChartsData.v, "topChartsId", "topChartsId")
                 tag(key, type) ==
                     IF Truthy(Get(topChartsData.v, key))
                     THEN [n \in DOMAIN topChartsData.v[key].v |->
                              topChartsData.v[key].v[n] @@ ("type" :> type)
                              @@ ("metadata" :> metadata)]
                     ELSE <<>>
             IN  Returned(Arr(tag("podcastSeries", "podcast") \o tag("podcastEpisodes", "episode")))

----------------------------------------------------------------------------
(* Query builder: the queries (utils/graphqlQueries).  A query is the root  *)
(* field, the rendered arguments (each the sequence of its parts) and the   *)
(* response selection.                                                      *)

DefaultResponseFields == <<"uuid", "name", "description">>

\* `"${text}"`
Quoted(text) == <<"\"">> \o text \o <<"\"">>

\* `${name}: ${value}`
Arg(name, value) == <<name, ": ">> \o value

\* enum tokens as one-part strings, for join
Tokens(list) == [k \in DOMAIN list |-> <<list[k]>>]

\* `[${list.join(', ')}]`
ListLiteral(list) == <<"[">> \o JoinWith(list, <<", ">>) \o <<"]">>

\* every list rendered in brackets, whatever its length
ScalarOrList_AlwaysList(list) ==
    ListLiteral(list)

\* a single-element list is rendered as a bare scalar
ScalarOrList(list) == IF Len(list) = 1 THEN list[1] ELSE ListLiteral(list)

Block(name, lines) == <<Line(0, name \o " {")>> \o Indent(lines) \o <<Line(0, "}")>>

Alphabet == <<"a", "b", "c", "d", "e", "f", "g", "h", "i", "j", "k", "l", "m",
              "n", "o", "p", "q", "r", "s", "t", "u", "v", "w", "x", "y", "z">>

Capitals == <<"A", "B", "C", "D", "E", "F", "G", "H", "I", "J", "K", "L", "M",
              "N", "O", "P", "Q", "R", "S", "T", "U", "V", "W", "X", "Y", "Z">>

\* str.toUpperCase()
ToUpperCase(str) ==
    [k \in DOMAIN str |->
        IF str[k] \in LowerLetters
        THEN Capitals[CHOOSE n \in DOMAIN Alphabet : Alphabet[n] = str[k]]
        ELSE str[k]]

\* the code -> enum lookup table; an unrecognized code is upper-cased
mapLanguageCode(code) ==
    IF code = <<"e", "n">> THEN <<"ENGLISH">> ELSE ToUpperCase(code)

\* `${n}` of a number
NumText(n) == <<ToString(n)>>

\* `${b}` of a boolean
BoolText(b) == IF b THEN <<"true">> ELSE <<"false">>

Query(root, params, selection) == [root |-> root, params |-> params, selection |-> selection]

buildSearchQuery(options, filters, responseFields) ==
    LET has(key) == key \in DOMAIN filters
        nonEmpty(key) == has(key) /\ Len(filters[key]) > 0
        languageEnums == [k \in DOMAIN filters["filterForLanguages"] |->
                             mapLanguageCode(filters["filterForLanguages"][k])]
        whenTruthy(key) == IF has(key) /\ Truthy(filters[key])
                           THEN <<Arg(key, NumText(filters[key].v))>> ELSE <<>>
        whenNumber(key) == IF has(key) THEN <<Arg(key, NumText(filters[key]))>> ELSE <<>>
        whenFlag(key) == IF has(key) THEN <<Arg(key, BoolText(filters[key]))>> ELSE <<>>
        allParams ==
            <<Arg("term", Quoted(options.term)),
              Arg("page", NumText(options.page)),
              Arg("limitPerPage", NumText(options.limitPerPage)),
              Arg("sortBy", <<options.sortBy>>),
              Arg("matchBy", <<options.matchType>>)>>
            \o (IF nonEmpty("filterForTypes")
                THEN <<Arg("filterForTypes", ScalarOrList(Tokens(filters["filterForTypes"])))>>
                ELSE <<>>)
            \o (IF nonEmpty("filterForLanguages")
                THEN <<Arg("filterForLanguages", ScalarOrList(languageEnums))>>
                ELSE <<>>)
            \o whenTruthy("filterForPublishedAfter")
            \o whenTruthy("filterForPublishedBefore")
            \o whenNumber("filterForDurationLessThan")
            \o whenNumber("filterForDurationGreaterThan")
            \o whenNumber("filterForTotalEpisodesLessThan")
            \o whenNumber("filterForTotalEpisodesGreaterThan")
            \o whenFlag("filterForHasTranscript")
            \o whenFlag("filterForHasChapters")
            \o whenFlag("isSafeMode")
        includesPodcasts ==
            ~has("filterForTypes") \/ Includes(filters["filterForTypes"], "PODCASTSERIES")
        includesEpisodes ==
            ~has("filterForTypes") \/ Includes(filters["filterForTypes"], "PODCASTEPISODE")
        podcastSeriesFields ==
            <<"uuid", "name">>
            \o (IF Includes(responseFields, "podcastDescription") THEN <<"description">> ELSE <<>>)
            \o (IF Includes(responseFields, "podcastImageUrl") THEN <<"imageUrl">> ELSE <<>>)
        responseSection ==
            <<Line(0, "searchId"), Line(0, "responseDetails {"), Line(1, "id"),
              Line(1, "pagesCount"), Line(1, "totalCount"), Line(0, "}")>>
            \o (IF includesPodcasts
                THEN Block("podcastSeries", buildFieldSelection(responseFields, "podcastSeries"))
                ELSE <<>>)
            \o (IF includesEpisodes
                THEN Block("podcastEpisodes",
                           buildFieldSelection(responseFields, "podcastEpisodes")
                           \o Block("podcastSeries", JoinLines(podcastSeriesFields)))
                ELSE <<>>)
    IN  Query("search", allParams, responseSection)

buildGetPodcastSeriesQuery(identifier, identifierType, responseFields, includeGenres, includeEpisodes, episodeFields) ==
    LET param == IF identifierType \in {"uuid", "name", "itunesId"} THEN identifierType
                 ELSE "rssUrl"
    IN  Query("getPodcastSeries", <<Arg(param, Quoted(identifier))>>,
              buildPodcastSeriesFieldSelection(responseFields, includeGenres,
                                               includeEpisodes, episodeFields))

buildGetEpisodeQuery(identifier, identifierType, responseFields, includeTranscript, includeChapters) ==
    Query("getPodcastEpisode", <<Arg(identifierType, Quoted(identifier))>>,
          buildEpisodeFieldSelection(responseFields, TRUE, includeTranscript, includeChapters))

\* language and genres are <<>> where the caller passes undefined
buildGetPopularContentQuery(language, genres, page, limitPerPage, responseFields) ==
    Query("getPopularContent",
          (IF language # <<>> THEN <<Arg("filterByLanguage", mapLanguageCode(language))>>
           ELSE <<>>)
          \o (IF Len(genres) > 0 THEN <<Arg("filterByGenres", ListLiteral(Tokens(genres)))>>
              ELSE <<>>)
          \o (IF page > 1 THEN <<Arg("page", NumText(page))>> ELSE <<>>)
          \o (IF limitPerPage # 10 THEN <<Arg("limitPerPage", NumText(limitPerPage))>>
              ELSE <<>>),
          <<Line(0, "popularityRankId")>>
          \o Block("podcastSeries",
                   buildPodcastSeriesFieldSelection(responseFields,
                       Includes(responseFields, "genres"), FALSE, DefaultResponseFields)))

buildGetLatestEpisodesQuery(podcastUuids, responseFields) ==
    Query("getLatestPodcastEpisodes",
          IF Len(podcastUuids) > 0
          THEN <<Arg("uuids", ListLiteral([k \in DOMAIN podcastUuids |->
                                              Quoted(podcastUuids[k])]))>>
          ELSE <<>>,
          buildEpisodeFieldSelection(responseFields, TRUE, FALSE, FALSE))

buildGetEpisodeTranscriptQuery(uuid, useOnDemandCredits) ==
    Query("getEpisodeTranscript",
          <<Arg("uuid", Quoted(uuid)),
            Arg("useOnDemandCreditsIfNeeded", BoolText(useOnDemandCredits))>>,
          JoinLines(<<"id", "text", "speaker", "startTimecode", "endTimecode">>))

\* the response section both top-charts queries share
\* a response section that asks for both blocks whatever the content type
topChartsResponseSection_BothBlocks(contentType, responseFields) ==
    <<Line(0, "topChartsId")>>
    \o Block("podcastSeries",
             buildPodcastSeriesFieldSelection(responseFields,
                 Includes(responseFields, "genres"), FALSE, DefaultResponseFields))
    \o Block("podcastEpisodes",
             buildEpisodeFieldSelection(responseFields, TRUE, FALSE, FALSE))

topChartsResponseSection(contentType, responseFields) ==
    <<Line(0, "topChartsId")>>
    \o (IF contentType = "PODCASTSERIES"
        THEN Block("podcastSeries",
                   buildPodcastSeriesFieldSelection(responseFields,
                       Includes(responseFields, "genres"), FALSE, DefaultResponseFields))
        ELSE Block("podcastEpisodes",
                   buildEpisodeFieldSelection(responseFields, TRUE, FALSE, FALSE)))

buildGetTopChartsByCountryQuery(contentType, country, source, page, limitPerPage, responseFields) ==
    Query("getTopChartsByCountry",
          <<Arg("taddyType", <<contentType>>), Arg("country", country),
            Arg("source", <<source>>), Arg("page", NumText(page)),
            Arg("limitPerPage", NumText(limitPerPage))>>,
          topChartsResponseSection(contentType, responseFields))

\* filterByCountry is <<>> where the caller passes undefined
buildGetTopChartsByGenresQuery(contentType, genres, source, filterByCountry, page, limitPerPage, responseFields) ==
    Query("getTopChartsByGenres",
          <<Arg("taddyType", <<contentType>>), Arg("genres", ListLiteral(Tokens(genres))),
            Arg("source", <<source>>), Arg("page", NumText(page)),
            Arg("limitPerPage", NumText(limitPerPage))>>
          \o (IF filterByCountry # <<>> THEN <<Arg("filterByCountry", filterByCountry)>>
              ELSE <<>>),
          topChartsResponseSection(contentType, responseFields))

----------------------------------------------------------------------------
(* The GraphQL transport wrapper (operations/common).  The reply of the     *)
(* authenticated POST is either a rejection carrying the transport's error  *)
(* or a resolution carrying the response body.  NodeApiError is taken to    *)
(* keep the message it is constructed with.                                 *)

\* o?.key of a value that may be undefined
OptGet(o, key) == IF o.k = "object" THEN Get(o.v, key) ELSE Undefined

\* a wrapper that lets the data of a response win over its errors
executeGraphQLQuery_DataWins(query, reply) ==
    LET errors == Get(reply.response, "errors")
        errorDetails == JoinWith([k \in DOMAIN errors.v |-> errors.v[k].message], <<", ">>)
        tried ==
            IF reply.kind = "rejected" THEN Threw(reply.error)
            ELSE IF Truthy(Get(reply.response, "data"))
                 THEN Returned(Get(reply.response, "data"))
            ELSE IF Truthy(errors)
                 THEN Threw([message |-> [template |-> "GraphQL Error: ${errorDetails}",
                                          errorDetails |-> errorDetails],
                             response |-> Undefined])
            ELSE Returned(Get(reply.response, "data"))
        error == tried.message
        debugInfo == [message |-> error.message,
                      status |-> OptGet(error.response, "status"),
                      statusText |-> OptGet(error.response, "statusText"),
                      responseData |-> OptGet(error.response, "data"),
                      responseHeaders |-> OptGet(error.response, "headers")]
    IN  IF tried.threw
        THEN Threw([template |-> "API Error: ${error.message}. Status: ${error.response?.status}. Debug: ${JSON.stringify(debugInfo)}. Query: ${query}",
                    message |-> error.message,
                    status |-> OptGet(error.response, "status"),
                    debugInfo |-> debugInfo,
                    query |-> query])
        ELSE tried

executeGraphQLQuery(query, reply) ==
    LET errors == Get(reply.response, "errors")
        errorDetails == JoinWith([k \in DOMAIN errors.v |-> errors.v[k].message], <<", ">>)
        tried ==
            IF reply.kind = "rejected" THEN Threw(reply.error)
            ELSE IF Truthy(errors)
                 THEN Threw([message |-> [template |-> "GraphQL Error: ${errorDetails}",
                                          errorDetails |-> errorDetails],
                             response |-> Undefined])
            ELSE Returned(Get(reply.response, "data"))
        error == tried.message
        debugInfo == [message |-> error.message,
                      status |-> OptGet(error.response, "status"),
                      statusText |-> OptGet(error.response, "statusText"),
                      responseData |-> OptGet(error.response, "data"),
                      responseHeaders |-> OptGet(error.response, "headers")]
    IN  IF tried.threw
        THEN Threw([template |-> "API Error: ${error.message}. Status: ${error.response?.status}. Debug: ${JSON.stringify(debugInfo)}. Query: ${query}",
                    message |-> error.message,
                    status |-> OptGet(error.response, "status"),
                    debugInfo |-> debugInfo,
                    query |-> query])
        ELSE tried

----------------------------------------------------------------------------
(* The eight operation handlers (TaddyApi.node).  A handler is given the    *)
(* node parameters of its item and the reply the remote service gives if    *)
(* asked; it yields what it did, in order, and how it ended.                *)

ReadParameters == [e |-> "read"]
Validated(ok) == [e |-> "validate", ok |-> ok]
Requested(query) == [e |-> "request", query |-> query]
Normalized == [e |-> "normalize"]

\* throw new NodeOperationError(node, message, {itemIndex}) out of a validation
Reject(m) == [events |-> <<ReadParameters, Validated(FALSE)>>, outcome |-> Threw(m)]

\* return process(data): data.<root> throws a TypeError when data is undefined or null
Process(processor, data) ==
    IF data.k \in {"undefined", "null"}
    THEN Threw([template |-> "Cannot read properties of ${data}", data |-> data.k])
    ELSE CASE processor = "processSearchResults" -> processSearchResults(data.v)
           [] processor = "processPodcastSeriesResult" -> processPodcastSeriesResult(data.v)
           [] processor = "processEpisodeResult" -> processEpisodeResult(data.v)
           [] processor = "processPopularContentResults" -> processPopularContentResults(data.v)
           [] processor = "processLatestEpisodesResults" -> processLatestEpisodesResults(data.v)
           [] processor = "processTranscriptResult" -> processTranscriptResult(data.v)
           [] processor = "processTopChartsResults country" ->
                 processTopChartsResults(data.v, "country")
           [] processor = "processTopChartsResults genres" ->
                 processTopChartsResults(data.v, "genres")

\* const data = await executeGraphQLQuery(this, query); return process(data);
QueryAndProcess(query, reply, processor) ==
    LET data == executeGraphQLQuery(query, reply)
    IN  IF data.threw
        THEN [events |-> <<ReadParameters, Validated(TRUE), Requested(query)>>,
              outcome |-> data]
        ELSE [events |-> <<ReadParameters, Validated(TRUE), Requested(query), Normalized>>,
              outcome |-> Process(processor, data.value)]

\* str.split(',').map(x => x.trim())
SplitTrim(str) == LET pieces == Split(str, ",") IN [k \in DOMAIN pieces |-> Trim(pieces[k])]

\* new Date(text).getTime(), on the date texts of this model
ParseableDates == (<<"1", "9", "7", "0", "-", "0", "1", "-", "0", "2">> :> 86400000)

DateGetTime(text) == IF text \in DOMAIN ParseableDates THEN Num(ParseableDates[text]) ELSE NaN

\* Math.floor(ms / 1000)
FloorSeconds(ms) == IF ms.k = "number" THEN Num(ms.v \div 1000) ELSE NaN

\* the search term with the exclude terms appended as "-term" entries
finalSearchTermOf_IgnoreExcludes(searchTerm, excludeTerms) ==
    searchTerm

finalSearchTermOf(searchTerm, excludeTerms) ==
    LET nonEmptyString(t) == Len(t) > 0
        excluded == SelectSeq(SplitTrim(excludeTerms), nonEmptyString)
        excludeList == JoinWith([k \in DOMAIN excluded |-> <<"-">> \o excluded[k]], <<" ">>)
    IN  IF excludeTerms # <<>> /\ Trim(excludeTerms) # <<>> /\ excludeList # <<>>
        THEN searchTerm \o <<" ">> \o excludeList
        ELSE searchTerm

\* the SearchFilters the search handler builds from the item's parameters
buildSearchFilters(p) ==
    LET ao == p.additionalOptions
        list(key) == IF key \in DOMAIN ao /\ ao[key] # <<>>
                     THEN key :> SplitTrim(ao[key]) ELSE EmptyObject
        text(key) == IF key \in DOMAIN ao /\ ao[key] # <<>> THEN key :> ao[key] ELSE EmptyObject
        date(key) == IF key \in DOMAIN ao /\ ao[key] # <<>>
                     THEN key :> FloorSeconds(DateGetTime(ao[key])) ELSE EmptyObject
        number(key) == IF key \in DOMAIN ao /\ ao[key] # 0 THEN key :> ao[key] ELSE EmptyObject
        flag(key) == IF key \in DOMAIN ao THEN key :> ao[key] ELSE EmptyObject
    IN  ("filterForTypes" :> p.contentTypes)
        @@ list("filterForCountries") @@ list("filterForLanguages")
        @@ list("filterForGenres") @@ list("filterForSeriesUuids")
        @@ text("filterForPodcastContentType")
        @@ date("filterForPublishedAfter") @@ date("filterForPublishedBefore")
        @@ date("filterForLastUpdatedAfter") @@ date("filterForLastUpdatedBefore")
        @@ number("filterForDurationLessThan") @@ number("filterForDurationGreaterThan")
        @@ number("filterForTotalEpisodesLessThan")
        @@ number("filterForTotalEpisodesGreaterThan")
        @@ flag("filterForHasTranscript") @@ flag("filterForHasChapters")
        @@ flag("isSafeMode")

executeSearchContent(p, reply) ==
    LET finalSearchTerm == finalSearchTermOf(p.searchTerm, p.excludeTerms)
        valid == validatePaginationParams(Num(p.page), Num(p.limitPerPage))
        searchOptions == [term |-> sanitizeSearchTerm(finalSearchTerm),
                          page |-> valid.page,
                          limitPerPage |-> valid.limitPerPage,
                          sortBy |-> p.sortBy,
                          matchType |-> p.matchType]
        filters == buildSearchFilters(p)
        validationErrors == validateFilterValues(filters)
    IN  IF ~validateSearchTerm(finalSearchTerm)
        THEN Reject(Msg("Invalid search term. Must be 1-500 characters."))
        ELSE IF Len(validationErrors) > 0
        THEN Reject([template |-> "Filter validation errors: ${validationErrors.join(', ')}",
                     validationErrors |-> validationErrors])
        ELSE QueryAndProcess(buildSearchQuery(searchOptions, filters, p.responseFields),
                             reply, "processSearchResults")

\* a podcast handler that does not check the shape of an RSS URL
executeGetPodcastDetails_UrlUnchecked(p, reply) ==
    IF p.identifier = <<>> THEN Reject(Msg("Podcast identifier is required"))
    ELSE IF p.identifierType = "uuid" /\ ~validateUuid(p.identifier)
    THEN Reject(Msg("Invalid UUID format"))
    ELSE IF p.identifierType = "itunesId" /\ ~validateItunesId(p.identifier)
    THEN Reject(Msg("Invalid iTunes ID format"))
    ELSE QueryAndProcess(
            buildGetPodcastSeriesQuery(p.identifier, p.identifierType, DefaultResponseFields,
                                       FALSE, FALSE, DefaultResponseFields),
            reply, "processPodcastSeriesResult")

executeGetPodcastDetails(p, reply) ==
    IF p.identifier = <<>> THEN Reject(Msg("Podcast identifier is required"))
    ELSE IF p.identifierType = "uuid" /\ ~validateUuid(p.identifier)
    THEN Reject(Msg("Invalid UUID format"))
    ELSE IF p.identifierType = "itunesId" /\ ~validateItunesId(p.identifier)
    THEN Reject(Msg("Invalid iTunes ID format"))
    ELSE IF p.identifierType = "rssUrl" /\ ~validateUrl(p.identifier)
    THEN Reject(Msg("Invalid RSS URL format"))
    ELSE QueryAndProcess(
            buildGetPodcastSeriesQuery(p.identifier, p.identifierType, DefaultResponseFields,
                                       FALSE, FALSE, DefaultResponseFields),
            reply, "processPodcastSeriesResult")

executeGetEpisodeDetails(p, reply) ==
    IF p.identifier = <<>> THEN Reject(Msg("Episode identifier is required"))
    ELSE IF p.identifierType = "uuid" /\ ~validateUuid(p.identifier)
    THEN Reject(Msg("Invalid UUID format"))
    ELSE QueryAndProcess(
            buildGetEpisodeQuery(p.identifier, p.identifierType, DefaultResponseFields,
                                 FALSE, FALSE),
            reply, "processEpisodeResult")

executeGetPopularContent(p, reply) ==
    LET valid == validatePaginationParams(Num(p.page), Num(p.limitPerPage))
    IN  IF p.language # <<>> /\ ~validateLanguageCode(p.language)
        THEN Reject(Msg("Invalid language code format"))
        ELSE QueryAndProcess(
                buildGetPopularContentQuery(p.language, p.genres, valid.page,
                                            valid.limitPerPage, p.responseFields),
                reply, "processPopularContentResults")

executeGetLatestEpisodes(p, reply) ==
    LET podcastUuids == SplitTrim(p.uuidsString)
        bad(uuid) == ~validateUuid(uuid)
        invalid == SelectSeq(podcastUuids, bad)
    IN  IF p.uuidsString = <<>> THEN Reject(Msg("Podcast UUIDs are required"))
        ELSE IF invalid # <<>>
        THEN Reject([template |-> "Invalid UUID format: ${uuid}", uuid |-> invalid[1]])
        ELSE QueryAndProcess(buildGetLatestEpisodesQuery(podcastUuids, DefaultResponseFields),
                             reply, "processLatestEpisodesResults")

\* a transcript handler that sends the query without checking the UUID format
executeGetTranscript_Unchecked(p, reply) ==
    IF p.episodeUuid = <<>> THEN Reject(Msg("Episode UUID is required"))
    ELSE QueryAndProcess(buildGetEpisodeTranscriptQuery(p.episodeUuid, p.useOnDemandCredits),
                         reply, "processTranscriptResult")

executeGetTranscript(p, reply) ==
    IF p.episodeUuid = <<>> THEN Reject(Msg("Episode UUID is required"))
    ELSE IF ~validateUuid(p.episodeUuid) THEN Reject(Msg("Invalid episode UUID format"))
    ELSE QueryAndProcess(buildGetEpisodeTranscriptQuery(p.episodeUuid, p.useOnDemandCredits),
                         reply, "processTranscriptResult")

executeGetTopChartsByCountry(p, reply) ==
    LET valid == validatePaginationParams(Num(p.page), Num(p.limitPerPage))
    IN  QueryAndProcess(
            buildGetTopChartsByCountryQuery(p.contentType, p.country, p.source, valid.page,
                                            valid.limitPerPage, DefaultResponseFields),
            reply, "processTopChartsResults country")

\* the handler without the check of the country filter against the content type
executeGetTopChartsByGenres_CountryUnchecked(p, reply) ==
    LET valid == validatePaginationParams(Num(p.page), Num(p.limitPerPage))
    IN  IF Len(p.genres) = 0 THEN Reject(Msg("At least one genre must be selected"))
        ELSE QueryAndProcess(
                buildGetTopChartsByGenresQuery(p.contentType, p.genres, p.source,
                                               p.filterByCountry, valid.page,
                                               valid.limitPerPage, DefaultResponseFields),
                reply, "processTopChartsResults genres")

executeGetTopChartsByGenres(p, reply) ==
    LET valid == validatePaginationParams(Num(p.page), Num(p.limitPerPage))
    IN  IF Len(p.genres) = 0 THEN Reject(Msg("At least one genre must be selected"))
        ELSE IF p.filterByCountry # <<>> /\ p.contentType = "PODCASTSERIES"
        THEN Reject(Msg("Podcasts content type is not available when filtering by country. Please select Episodes instead."))
        ELSE QueryAndProcess(
                buildGetTopChartsByGenresQuery(p.contentType, p.genres, p.source,
                                               p.filterByCountry, valid.page,
                                               valid.limitPerPage, DefaultResponseFields),
                reply, "processTopChartsResults genres")

----------------------------------------------------------------------------
(* The batch loop is idle while a single function is exercised, and the    *)
(* function harness is idle while the batch loop runs.                     *)

NoError == [threw |-> FALSE]

NoOutput == [returned |-> FALSE]

ExecIdle ==
    /\ continueOnFail = FALSE
    /\ nItems = 0
    /\ i = 0
    /\ pc = "idle"
    /\ done = <<>>
    /\ returnData = <<>>
    /\ thrown = NoError
    /\ output = NoOutput

NotCalled == [fn |-> "none"]

PureIdle ==
    /\ args = [none |-> TRUE]
    /\ called = NotCalled
    /\ result = <<>>

----------------------------------------------------------------------------
(* Field selection exercised on every requested field list *)

\* Field names a caller can request: the identifier, fields of both schemas,
\* fields of one schema only, the nested-object names and the parent-podcast aliases.
FieldNames ==
    {"uuid", "name", "duration", "rssUrl", "websiteUrl", "totalEpisodeCount",
     "genres", "podcastDescription", "transcript"}

NestedEpisodeFieldNames == {"uuid", "name", "podcastSeries", "transcript"}

InitFields ==
    /\ ExecIdle
    /\ args \in [fields : BSeq(FieldNames, MaxFields)]
    /\ called = NotCalled
    /\ result = <<>>

CallBuildFieldSelection ==
    /\ called = NotCalled
    /\ \E contentType \in {"podcastSeries", "podcastEpisodes"} :
          /\ called' = [fn |-> "buildFieldSelection", contentType |-> contentType]
          /\ result' = buildFieldSelection(args.fields, contentType)
    /\ UNCHANGED <<args, execVars>>

CallBuildPodcastSeriesFieldSelection ==
    /\ called = NotCalled
    /\ \E includeGenres \in BOOLEAN, includeEpisodes \in BOOLEAN,
          episodeFields \in BSeq(NestedEpisodeFieldNames, MaxEpisodeFields) :
          /\ includeEpisodes \/ episodeFields = <<>>
          /\ called' = [fn |-> "buildPodcastSeriesFieldSelection",
                        includeGenres |-> includeGenres,
                        includeEpisodes |-> includeEpisodes,
                        episodeFields |-> episodeFields]
          /\ result' = buildPodcastSeriesFieldSelection(args.fields, includeGenres,
                                                        includeEpisodes, episodeFields)
    /\ UNCHANGED <<args, execVars>>

CallBuildEpisodeFieldSelection ==
    /\ called = NotCalled
    /\ \E includePodcastSeries \in BOOLEAN, includeTranscript \in BOOLEAN,
          includeChapters \in BOOLEAN :
          /\ called' = [fn |-> "buildEpisodeFieldSelection",
                        includePodcastSeries |-> includePodcastSeries,
                        includeTranscript |-> includeTranscript,
                        includeChapters |-> includeChapters]
          /\ result' = buildEpisodeFieldSelection(args.fields, includePodcastSeries,
                                                  includeTranscript, includeChapters)
    /\ UNCHANGED <<args, execVars>>

NextFields ==
    \/ CallBuildFieldSelection
    \/ CallBuildPodcastSeriesFieldSelection
    \/ CallBuildEpisodeFieldSelection

SpecFields == InitFields /\ [][NextFields]_vars

FieldSelectionCalled ==
    called.fn \in {"buildFieldSelection", "buildPodcastSeriesFieldSelection",
                   "buildEpisodeFieldSelection"}

\* The entity's own fields of a rendered selection: the lines at depth 0 that
\* neither open nor close a nested block.
BlockLines == {"genres {", "episodes {", "podcastSeries {", "chapters {", "}"}

OwnFields(sel) ==
    LET own(l) == l.d = 0 /\ l.s \notin BlockLines
        ls == SelectSeq(sel, own)
    IN  [k \in DOMAIN ls |-> ls[k].s]

\* C1 (as stated): whatever the requested list, the own fields of every rendering
\* hold 'uuid' exactly once, as the first entry.
C1_UuidOnceAtFront ==
    FieldSelectionCalled =>
        /\ Count(OwnFields(result), "uuid") = 1
        /\ OwnFields(result)[1] = "uuid"

\* C1 (amended): every rendering holds 'uuid' among the own fields; it holds it
\* exactly once whenever the request names 'uuid' at most once, and as the first
\* entry whenever the request omits 'uuid' (it is prepended) or names it first.
C1_UuidAlwaysPresent ==
    FieldSelectionCalled =>
        /\ Includes(OwnFields(result), "uuid")
        /\ Count(args.fields, "uuid") <= 1 => Count(OwnFields(result), "uuid") = 1
        /\ (~Includes(args.fields, "uuid") \/ args.fields[1] = "uuid") =>
              OwnFields(result)[1] = "uuid"

C1_Witness ==
    /\ called.fn = "buildPodcastSeriesFieldSelection"
    /\ ~Includes(args.fields, "uuid")
    /\ Len(args.fields) >= 2
    /\ OwnFields(result)[1] = "uuid"

----------------------------------------------------------------------------
(* Response normalizers exercised on the responses the remote service can  *)
(* give to each query.  An entity of a response carries fields the query   *)
(* selects.                                                                *)

ItemSamples == {[uuid |-> "u1"], [uuid |-> "u2", name |-> "n2", description |-> "d2"]}

\* an item that has a `type` field of its own
OwnTypeItem == [uuid |-> "u3", type |-> "bonus"]

TranscriptSamples ==
    {[id |-> "t1", text |-> "hello"], [id |-> "t2", text |-> "bye", speaker |-> "s"]}

DetailSamples ==
    {[id |-> "r1", totalCount |-> 42, pagesCount |-> 5], [id |-> "r2", totalCount |-> 7]}

\* a list field of an object: absent, or an array of up to n entries
OptArrays(S, n) == {Undefined} \cup {Arr(s) : s \in BSeq(S, n)}

\* a property of an object literal, left out when its value is undefined
Opt(key, v) == IF v = Undefined THEN EmptyObject ELSE key :> v

SearchObjects ==
    {("searchId" :> sid) @@ Opt("responseDetails", rd) @@ Opt("podcastSeries", ps)
     @@ Opt("podcastEpisodes", pe) @@ Opt("comicSeries", cs) @@ Opt("creators", cr) :
        sid \in {"s1"},
        rd \in OptArrays(DetailSamples, MaxDetails),
        ps \in OptArrays(ItemSamples, MaxList),
        pe \in OptArrays(ItemSamples, MaxList),
        cs \in OptArrays(ItemSamples, MaxMinorList),
        cr \in OptArrays(ItemSamples, MaxMinorList)}

\* the root object of a top-charts response; its items carry fields of the
\* field tables only, since the selection of these queries is filtered against them
ChartObjects ==
    {Obj(id @@ Opt("podcastSeries", ps) @@ Opt("podcastEpisodes", pe)) :
        id \in {EmptyObject, "topChartsId" :> "c1"},
        ps \in OptArrays(ItemSamples, MaxList),
        pe \in OptArrays(ItemSamples, MaxMinorList)}

\* data with one root field: absent, null, or the given values
Roots(name, values) ==
    {EmptyObject, name :> Null} \cup {name :> v : v \in values}

ResponseData(op) ==
    CASE op = "search" -> Roots("search", {Obj(o) : o \in SearchObjects})
      [] op = "podcast" -> Roots("getPodcastSeries", {Obj(o) : o \in ItemSamples})
      [] op = "episode" -> Roots("getPodcastEpisode", {Obj(o) : o \in ItemSamples})
      [] op = "latest" ->
            Roots("getLatestPodcastEpisodes",
                  {Arr(l) : l \in BSeq(ItemSamples, MaxList)} \cup {Obj(o) : o \in ItemSamples}
                  \cup {Arr(<<OwnTypeItem>>)})
      [] op = "transcript" ->
            Roots("getEpisodeTranscript",
                  {Arr(l) : l \in BSeq(TranscriptSamples, MaxList)}
                  \cup {Obj(o) : o \in TranscriptSamples})
      [] op = "popular" ->
            Roots("getPopularContent",
                  {Obj(id @@ Opt("podcastSeries", ps)) :
                      id \in {EmptyObject, "popularityRankId" :> "p1"},
                      ps \in OptArrays(ItemSamples, MaxList)})
      [] op = "topChartsByCountry" -> Roots("getTopChartsByCountry", ChartObjects)
      [] op = "topChartsByGenres" -> Roots("getTopChartsByGenres", ChartObjects)

NormalizedOps ==
    {"search", "podcast", "episode", "latest", "transcript",
     "popular", "topChartsByCountry", "topChartsByGenres"}

InitNorm ==
    /\ ExecIdle
    /\ \E op \in NormalizedOps : args \in [op : {op}, data : ResponseData(op)]
    /\ called = NotCalled
    /\ result = <<>>

CallProcessSearchResults ==
    /\ called = NotCalled
    /\ args.op = "search"
    /\ called' = [fn |-> "processSearchResults"]
    /\ result' = processSearchResults(args.data)
    /\ UNCHANGED <<args, execVars>>

CallProcessPodcastSeriesResult ==
    /\ called = NotCalled
    /\ args.op = "podcast"
    /\ called' = [fn |-> "processPodcastSeriesResult"]
    /\ result' = processPodcastSeriesResult(args.data)
    /\ UNCHANGED <<args, execVars>>

CallProcessEpisodeResult ==
    /\ called = NotCalled
    /\ args.op = "episode"
    /\ called' = [fn |-> "processEpisodeResult"]
    /\ result' = processEpisodeResult(args.data)
    /\ UNCHANGED <<args, execVars>>

CallProcessLatestEpisodesResults ==
    /\ called = NotCalled
    /\ args.op = "latest"
    /\ called' = [fn |-> "processLatestEpisodesResults"]
    /\ result' = processLatestEpisodesResults(args.data)
    /\ UNCHANGED <<args, execVars>>

CallProcessTranscriptResult ==
    /\ called = NotCalled
    /\ args.op = "transcript"
    /\ called' = [fn |-> "processTranscriptResult"]
    /\ result' = processTranscriptResult(args.data)
    /\ UNCHANGED <<args, execVars>>

CallProcessPopularContentResults ==
    /\ called = NotCalled
    /\ args.op = "popular"
    /\ called' = [fn |-> "processPopularContentResults"]
    /\ result' = processPopularContentResults(args.data)
    /\ UNCHANGED <<args, execVars>>

CallProcessTopChartsResults ==
    /\ called = NotCalled
    /\ args.op \in {"topChartsByCountry", "topChartsByGenres"}
    /\ called' = [fn |-> "processTopChartsResults"]
    /\ result' = processTopChartsResults(args.data,
                      IF args.op = "topChartsByCountry" THEN "country" ELSE "genres")
    /\ UNCHANGED <<args, execVars>>

NextNorm ==
    \/ CallProcessSearchResults
    \/ CallProcessPodcastSeriesResult
    \/ CallProcessEpisodeResult
    \/ CallProcessLatestEpisodesResults
    \/ CallProcessTranscriptResult
    \/ CallProcessPopularContentResults
    \/ CallProcessTopChartsResults

SpecNorm == InitNorm /\ [][NextNorm]_vars

\* the entries of a result list that carry the given type tag
Tagged(list, tag) ==
    LET has(r) == "type" \in DOMAIN r /\ r["type"] = tag IN SelectSeq(list, has)

\* the record r is the source item with the tag added and nothing else changed
IsTaggedCopy(r, item, tag) ==
    /\ DOMAIN r = DOMAIN item \cup {"type"}
    /\ \A f \in DOMAIN item : r[f] = item[f]
    /\ r["type"] = tag

\* C5: get-podcast and get-episode: an absent or null root is a not-found failure,
\* never a record; a non-null object gives exactly one record, tagged 'podcast'
\* respectively 'episode'.
LookupIsNotFoundOrOne(fn, rootName, tag) ==
    called.fn = fn =>
        LET root == Get(args.data, rootName)
        IN  /\ root.k \in {"undefined", "null"} => result.threw
            /\ root.k = "object" =>
                  /\ ~result.threw
                  /\ result.value.k = "object"
                  /\ IsTaggedCopy(result.value.v, root.v, tag)

C5_NotFoundOrOneRecord ==
    /\ LookupIsNotFoundOrOne("processPodcastSeriesResult", "getPodcastSeries", "podcast")
    /\ LookupIsNotFoundOrOne("processEpisodeResult", "getPodcastEpisode", "episode")

C5_Witness ==
    /\ called.fn = "processEpisodeResult"
    /\ Get(args.data, "getPodcastEpisode").k = "object"
    /\ ~result.threw

\* C6: get-episode-transcript: a missing root or an empty array is a not-found
\* failure; an empty result list is never returned.
C6_EmptyTranscriptIsNotFound ==
    called.fn = "processTranscriptResult" =>
        LET root == Get(args.data, "getEpisodeTranscript")
        IN  /\ (root.k = "undefined" \/ (root.k = "array" /\ root.v = <<>>)) => result.threw
            /\ ~result.threw => result.value.v # <<>>

\* C7: zero matches are a success for search and latest-episodes: empty category
\* lists give no podcast, episode, comic or creator record and no failure; an empty
\* latest-episodes root gives an empty array and no failure.
C7_ZeroMatchesSucceed ==
    /\ called.fn = "processSearchResults" /\ Truthy(Get(args.data, "search")) =>
          /\ ~result.threw
          /\ \A c \in {<<"podcastSeries", "podcast">>, <<"podcastEpisodes", "episode">>,
                       <<"comicSeries", "comic">>, <<"creators", "creator">>} :
                Get(args.data["search"].v, c[1]) \in {Undefined, Arr(<<>>)} =>
                    Tagged(result.value.v, c[2]) = <<>>
    /\ called.fn = "processLatestEpisodesResults"
         /\ Get(args.data, "getLatestPodcastEpisodes") = Arr(<<>>) =>
          /\ ~result.threw
          /\ result.value = Arr(<<>>)

C7_Witness ==
    /\ called.fn = "processSearchResults"
    /\ Truthy(Get(args.data, "search"))
    /\ \A key \in {"podcastSeries", "podcastEpisodes", "comicSeries", "creators"} :
          Get(args.data["search"].v, key) = Arr(<<>>)
    /\ ~result.threw
    /\ Len(result.value.v) = 1

\* C8: a present search root gives the search-metadata record first, with the
\* counts of the first element of responseDetails, then the podcast, episode, comic
\* and creator records in that order, each list in its own order; the length is
\* 1 plus the lengths of the present lists.
ListOf(searchData, key) ==
    IF Truthy(Get(searchData, key)) THEN searchData[key].v ELSE <<>>

SameProp(r, as, o, key) ==
    IF key \in DOMAIN o THEN as \in DOMAIN r /\ r[as] = o[key] ELSE as \notin DOMAIN r

C8_MetadataFirstThenLists ==
    called.fn = "processSearchResults" /\ Truthy(Get(args.data, "search")) =>
        LET sd == args.data["search"].v
            ps == ListOf(sd, "podcastSeries")
            pe == ListOf(sd, "podcastEpisodes")
            cs == ListOf(sd, "comicSeries")
            cr == ListOf(sd, "creators")
            rd == ListOf(sd, "responseDetails")
            first == IF rd = <<>> THEN EmptyObject ELSE rd[1]
            out == result.value.v
        IN  /\ ~result.threw
            /\ Len(out) = 1 + Len(ps) + Len(pe) + Len(cs) + Len(cr)
            /\ "_type" \in DOMAIN out[1] /\ out[1]["_type"] = "search_metadata"
            /\ SameProp(out[1], "totalCount", first, "totalCount")
            /\ SameProp(out[1], "pagesCount", first, "pagesCount")
            /\ \A n \in DOMAIN ps : IsTaggedCopy(out[1 + n], ps[n], "podcast")
            /\ \A n \in DOMAIN pe : IsTaggedCopy(out[1 + Len(ps) + n], pe[n], "episode")
            /\ \A n \in DOMAIN cs :
                  IsTaggedCopy(out[1 + Len(ps) + Len(pe) + n], cs[n], "comic")
            /\ \A n \in DOMAIN cr :
                  IsTaggedCopy(out[1 + Len(ps) + Len(pe) + Len(cs) + n], cr[n], "creator")

C8_Witness ==
    /\ called.fn = "processSearchResults"
    /\ Truthy(Get(args.data, "search"))
    /\ Len(ListOf(args.data["search"].v, "responseDetails")) = 2
    /\ Len(ListOf(args.data["search"].v, "podcastSeries")) = 2
    /\ Len(ListOf(args.data["search"].v, "podcastEpisodes")) = 1
    /\ Len(ListOf(args.data["search"].v, "creators")) = 1
    /\ Len(result.value.v) = 5
    /\ result.value.v[1]["totalCount"] = args.data["search"].v["responseDetails"].v[1].totalCount

----------------------------------------------------------------------------
(* The batch loop of TaddyApi.execute.  The node parameters of an item and  *)
(* the reply of the remote service are inputs; each step processes one item *)
(* with the handler its resource and operation select.                      *)

SampleUuid ==
    Rep("a", 8) \o <<"-">> \o Rep("b", 4) \o <<"-", "4">> \o Rep("c", 3)
    \o <<"-", "8">> \o Rep("d", 3) \o <<"-">> \o Rep("e", 12)

MalformedUuid == <<"n", "o", "t", "-", "a", "-", "u", "u", "i", "d">>

SearchParameterBase ==
    [searchTerm |-> <<"a", "i">>, excludeTerms |-> <<>>,
     contentTypes |-> <<"PODCASTSERIES">>, sortBy |-> "POPULARITY",
     matchType |-> "MOST_TERMS", page |-> 1, limitPerPage |-> 10,
     responseFields |-> DefaultResponseFields, additionalOptions |-> EmptyObject]

SearchParameters ==
    {SearchParameterBase,
     [SearchParameterBase EXCEPT !.searchTerm = <<"\"", " ">>],
     [SearchParameterBase EXCEPT !.searchTerm = <<"a", "\"", "\\", "b">>],
     [SearchParameterBase EXCEPT
         !.additionalOptions = ("filterForCountries" :> <<"U", "S", ",", "u", "k">>)],
     [SearchParameterBase EXCEPT
         !.excludeTerms = <<"x", ",", " ", "y">>,
         !.contentTypes = <<"PODCASTSERIES", "PODCASTEPISODE">>,
         !.page = 0, !.limitPerPage = 99,
         !.responseFields = <<"name", "duration">>,
         !.additionalOptions =
             ("filterForLanguages" :> <<"e", "n", ",", " ", "f", "r">>)
             @@ ("filterForPublishedAfter" :> <<"1", "9", "7", "0", "-", "0", "1", "-", "0", "2">>)
             @@ ("filterForPublishedBefore" :> <<"s", "o", "o", "n">>)
             @@ ("filterForDurationLessThan" :> 3600)
             @@ ("isSafeMode" :> TRUE)]}

PodcastParameters ==
    {[identifierType |-> "uuid", identifier |-> SampleUuid],
     [identifierType |-> "uuid", identifier |-> MalformedUuid],
     [identifierType |-> "itunesId", identifier |-> <<"1", "2", "x">>],
     [identifierType |-> "rssUrl", identifier |-> <<"f", "t", "p", ":", "/", "/", "x">>],
     [identifierType |-> "name", identifier |-> <<>>],
     [identifierType |-> "itunesId", identifier |-> <<"1", "2">>],
     [identifierType |-> "name", identifier |-> <<"a", "\"", "b">>],
     [identifierType |-> "rssUrl",
      identifier |-> <<"h", "t", "t", "p", ":", "/", "/", "x", "\"">>]}

EpisodeParameters ==
    {[identifierType |-> "guid", identifier |-> <<"g", "1">>],
     [identifierType |-> "name", identifier |-> <<"a", "\\">>],
     [identifierType |-> "uuid", identifier |-> MalformedUuid],
     [identifierType |-> "name", identifier |-> <<>>]}

PopularParameters ==
    {[language |-> <<"e", "n">>, genres |-> <<"PODCASTSERIES_NEWS">>, page |-> 2,
      limitPerPage |-> 10, responseFields |-> <<"name", "genres">>],
     [language |-> <<"E", "N">>, genres |-> <<>>, page |-> 1,
      limitPerPage |-> 10, responseFields |-> DefaultResponseFields]}

LatestParameters ==
    {[uuidsString |-> SampleUuid \o <<",", " ">> \o SampleUuid],
     [uuidsString |-> SampleUuid \o <<",">> \o MalformedUuid],
     [uuidsString |-> <<>>]}

TranscriptParameters ==
    {[episodeUuid |-> SampleUuid, useOnDemandCredits |-> TRUE],
     [episodeUuid |-> MalformedUuid, useOnDemandCredits |-> FALSE],
     [episodeUuid |-> <<>>, useOnDemandCredits |-> FALSE]}

TopChartsByCountryParameters ==
    {[contentType |-> "PODCASTEPISODE", country |-> <<"UNITED_STATES_OF_AMERICA">>,
      source |-> "APPLE_PODCASTS", page |-> 30, limitPerPage |-> 25],
     [contentType |-> "PODCASTSERIES", country |-> <<"CANADA">>,
      source |-> "APPLE_PODCASTS", page |-> 1, limitPerPage |-> 10]}

TopChartsByGenresParameters ==
    {[contentType |-> ct, genres |-> g, source |-> "APPLE_PODCASTS",
      filterByCountry |-> c, page |-> 1, limitPerPage |-> 10] :
        ct \in {"PODCASTSERIES", "PODCASTEPISODE"},
        g \in {<<>>, <<"PODCASTSERIES_NEWS">>},
        c \in {<<>>, <<"CANADA">>}}

\* replies the remote service or the transport can give whatever the query
Unauthorized ==
    [kind |-> "rejected",
     error |-> [message |-> Msg("Request failed with status code 401"),
                response |-> Obj([status |-> 401, statusText |-> "Unauthorized"])]]

Resolved(response) == [kind |-> "resolved", response |-> response]

GraphQLErrors ==
    Resolved(("errors" :> Arr(<<[message |-> <<"Query too complex">>]>>)) @@ ("data" :> Null))

Data(root, value) == Resolved("data" :> Obj(root :> value))

Replies(operation) ==
    {Unauthorized, GraphQLErrors}
    \cup
    CASE operation = "searchContent" ->
            {Data("search", Obj([searchId |-> "s1",
                                 responseDetails |-> Arr(<<[id |-> "r1", totalCount |-> 2,
                                                            pagesCount |-> 1]>>),
                                 podcastSeries |-> Arr(<<[uuid |-> "u1"], [uuid |-> "u2"]>>)]))}
      [] operation = "getPodcastDetails" ->
            {Data("getPodcastSeries", Obj([uuid |-> "u1"])), Data("getPodcastSeries", Null)}
      [] operation = "getEpisodeDetails" ->
            {Data("getPodcastEpisode", Obj([uuid |-> "u1"])), Data("getPodcastEpisode", Null)}
      [] operation = "getPopularContent" ->
            {Data("getPopularContent", Obj([popularityRankId |-> "p1",
                                            podcastSeries |-> Arr(<<[uuid |-> "u1"]>>)]))}
      [] operation = "getLatestEpisodes" ->
            {Data("getLatestPodcastEpisodes", Arr(<<[uuid |-> "u1"], [uuid |-> "u2"]>>)),
             Data("getLatestPodcastEpisodes", Arr(<<>>))}
      [] operation = "getTranscript" ->
            {Data("getEpisodeTranscript", Arr(<<[id |-> "t1", text |-> "hello"]>>)),
             Data("getEpisodeTranscript", Arr(<<>>)),
             Resolved(EmptyObject)}
      [] operation = "getTopChartsByCountry" ->
            {Data("getTopChartsByCountry", Obj([topChartsId |-> "c1",
                                                podcastEpisodes |-> Arr(<<[uuid |-> "u1"]>>)]))}
      [] operation = "getTopChartsByGenres" ->
            {Data("getTopChartsByGenres", Obj([topChartsId |-> "c2",
                                               podcastSeries |-> Arr(<<[uuid |-> "u1"]>>)]))}

\* the resource and operation parameters an item can carry
ResourceOperations ==
    {<<"search", "searchContent">>, <<"podcast", "getDetails">>, <<"episode", "getDetails">>,
     <<"popular", "getPopular">>, <<"latest", "getLatest">>,
     <<"transcript", "getTranscript">>, <<"topCharts", "getByCountry">>,
     <<"topCharts", "getByGenres">>, <<"podcast", "getPopular">>, <<"search", "getDetails">>}

\* an if / else-if chain that sends both getDetails operations to the podcast handler
dispatch_DetailsByOperation(resource, operation) ==
    IF resource = "search" /\ operation = "searchContent" THEN "searchContent"
    ELSE IF resource \in {"podcast", "episode"} /\ operation = "getDetails"
    THEN "getPodcastDetails"
    ELSE IF resource = "popular" /\ operation = "getPopular" THEN "getPopularContent"
    ELSE IF resource = "latest" /\ operation = "getLatest" THEN "getLatestEpisodes"
    ELSE IF resource = "transcript" /\ operation = "getTranscript" THEN "getTranscript"
    ELSE IF resource = "topCharts" /\ operation = "getByCountry" THEN "getTopChartsByCountry"
    ELSE IF resource = "topCharts" /\ operation = "getByGenres" THEN "getTopChartsByGenres"
    ELSE "unknown"

\* the if / else-if chain of execute
dispatch(resource, operation) ==
    IF resource = "search" /\ operation = "searchContent" THEN "searchContent"
    ELSE IF resource = "podcast" /\ operation = "getDetails" THEN "getPodcastDetails"
    ELSE IF resource = "episode" /\ operation = "getDetails" THEN "getEpisodeDetails"
    ELSE IF resource = "popular" /\ operation = "getPopular" THEN "getPopularContent"
    ELSE IF resource = "latest" /\ operation = "getLatest" THEN "getLatestEpisodes"
    ELSE IF resource = "transcript" /\ operation = "getTranscript" THEN "getTranscript"
    ELSE IF resource = "topCharts" /\ operation = "getByCountry" THEN "getTopChartsByCountry"
    ELSE IF resource = "topCharts" /\ operation = "getByGenres" THEN "getTopChartsByGenres"
    ELSE "unknown"

Selects(handler) == {ro \in ResourceOperations : dispatch(ro[1], ro[2]) = handler}

\* a list of records that loses the order of the array's elements
Records_Reversed(responseData, item) ==
    IF IsArray(responseData)
    THEN [k \in DOMAIN responseData.v |->
             [json |-> responseData.v[Len(responseData.v) + 1 - k],
              pairedItem |-> [item |-> item]]]
    ELSE <<[json |-> responseData.v, pairedItem |-> [item |-> item]]>>

\* returnData.push({json, pairedItem: {item: i}}) for each element, or for the one object
Records(responseData, item) ==
    IF IsArray(responseData)
    THEN [k \in DOMAIN responseData.v |->
             [json |-> responseData.v[k], pairedItem |-> [item |-> item]]]
    ELSE <<[json |-> responseData.v, pairedItem |-> [item |-> item]]>>

\* an error record that loses the index of the item it belongs to
ErrorRecord_ItemZero(error, item) ==
    [json |-> ("error" :> error.message), pairedItem |-> [item |-> 0]]

ErrorRecord(error, item) ==
    [json |-> ("error" :> error.message), pairedItem |-> [item |-> item]]

\* a loop body whose catch never rethrows
Settle_NeverRethrow(handler, p, r) ==
    /\ done' = Append(done, [item |-> i, handler |-> handler, params |-> p,
                             events |-> r.events, outcome |-> r.outcome])
    /\ IF ~r.outcome.threw
       THEN returnData' = returnData \o Records(r.outcome.value, i)
       ELSE returnData' = Append(returnData, ErrorRecord(r.outcome, i))
    /\ i' = i + 1
    /\ UNCHANGED <<pc, thrown, continueOnFail, nItems, output, pureVars>>

\* the rest of the loop body once the handler of item i has ended: push its
\* records, or catch its error
Settle(handler, p, r) ==
    /\ done' = Append(done, [item |-> i, handler |-> handler, params |-> p,
                             events |-> r.events, outcome |-> r.outcome])
    /\ IF ~r.outcome.threw
       THEN /\ returnData' = returnData \o Records(r.outcome.value, i)
            /\ i' = i + 1
            /\ UNCHANGED <<pc, thrown>>
       ELSE IF continueOnFail
       THEN /\ returnData' = Append(returnData, ErrorRecord(r.outcome, i))
            /\ i' = i + 1
            /\ UNCHANGED <<pc, thrown>>
       ELSE /\ pc' = "thrown"
            /\ thrown' = r.outcome
            /\ UNCHANGED <<i, returnData>>
    /\ UNCHANGED <<continueOnFail, nItems, output, pureVars>>

InLoop == pc = "loop" /\ i < nItems

Init ==
    /\ continueOnFail \in BOOLEAN
    /\ nItems \in 0..MaxItems
    /\ i = 0
    /\ pc = "loop"
    /\ done = <<>>
    /\ returnData = <<>>
    /\ thrown = NoError
    /\ output = NoOutput
    /\ PureIdle

ExecuteSearchContent ==
    /\ InLoop
    /\ \E ro \in Selects("searchContent"), p \in SearchParameters,
          reply \in Replies("searchContent") :
          Settle("searchContent", p @@ [resource |-> ro[1], operation |-> ro[2]], executeSearchContent(p, reply))

ExecuteGetPodcastDetails ==
    /\ InLoop
    /\ \E ro \in Selects("getPodcastDetails"), p \in PodcastParameters,
          reply \in Replies("getPodcastDetails") :
          Settle("getPodcastDetails", p @@ [resource |-> ro[1], operation |-> ro[2]], executeGetPodcastDetails(p, reply))

ExecuteGetEpisodeDetails ==
    /\ InLoop
    /\ \E ro \in Selects("getEpisodeDetails"), p \in EpisodeParameters,
          reply \in Replies("getEpisodeDetails") :
          Settle("getEpisodeDetails", p @@ [resource |-> ro[1], operation |-> ro[2]], executeGetEpisodeDetails(p, reply))

ExecuteGetPopularContent ==
    /\ InLoop
    /\ \E ro \in Selects("getPopularContent"), p \in PopularParameters,
          reply \in Replies("getPopularContent") :
          Settle("getPopularContent", p @@ [resource |-> ro[1], operation |-> ro[2]], executeGetPopularContent(p, reply))

ExecuteGetLatestEpisodes ==
    /\ InLoop
    /\ \E ro \in Selects("getLatestEpisodes"), p \in LatestParameters,
          reply \in Replies("getLatestEpisodes") :
          Settle("getLatestEpisodes", p @@ [resource |-> ro[1], operation |-> ro[2]], executeGetLatestEpisodes(p, reply))

ExecuteGetTranscript ==
    /\ InLoop
    /\ \E ro \in Selects("getTranscript"), p \in TranscriptParameters,
          reply \in Replies("getTranscript") :
          Settle("getTranscript", p @@ [resource |-> ro[1], operation |-> ro[2]], executeGetTranscript(p, reply))

ExecuteGetTopChartsByCountry ==
    /\ InLoop
    /\ \E ro \in Selects("getTopChartsByCountry"), p \in TopChartsByCountryParameters,
          reply \in Replies("getTopChartsByCountry") :
          Settle("getTopChartsByCountry", p @@ [resource |-> ro[1], operation |-> ro[2]], executeGetTopChartsByCountry(p, reply))

ExecuteGetTopChartsByGenres ==
    /\ InLoop
    /\ \E ro \in Selects("getTopChartsByGenres"), p \in TopChartsByGenresParameters,
          reply \in Replies("getTopChartsByGenres") :
          Settle("getTopChartsByGenres", p @@ [resource |-> ro[1], operation |-> ro[2]], executeGetTopChartsByGenres(p, reply))

UnknownOperation ==
    /\ InLoop
    /\ \E ro \in Selects("unknown") :
          Settle("unknown", [resource |-> ro[1], operation |-> ro[2]],
                 [events |-> <<ReadParameters>>,
                  outcome |-> Threw([template |-> "Unknown operation: ${resource}.${operation}",
                                     resource |-> ro[1], operation |-> ro[2]])])

\* return [returnData]
Return ==
    /\ pc = "loop"
    /\ i = nItems
    /\ pc' = "returned"
    /\ output' = [returned |-> TRUE, value |-> <<returnData>>]
    /\ UNCHANGED <<continueOnFail, nItems, i, done, returnData, thrown, pureVars>>

Next ==
    \/ ExecuteSearchContent
    \/ ExecuteGetPodcastDetails
    \/ ExecuteGetEpisodeDetails
    \/ ExecuteGetPopularContent
    \/ ExecuteGetLatestEpisodes
    \/ ExecuteGetTranscript
    \/ ExecuteGetTopChartsByCountry
    \/ ExecuteGetTopChartsByGenres
    \/ UnknownOperation
    \/ Return

Spec == Init /\ [][Next]_vars

\* the output records paired with an item
RecordsOf(item) == LET paired(r) == r.pairedItem.item = item IN SelectSeq(returnData, paired)

\* C2: with continue-on-fail active, every failed item has exactly one output
\* record, {error: message} with the message of its failure, paired with it; every
\* item before the loop index has been processed, also after a failure; execute
\* never rejects, and what it returns is the record list.
C2_FailureIsOneErrorRecord ==
    continueOnFail =>
        /\ pc # "thrown" /\ thrown = NoError
        /\ Len(done) = i
        /\ \A k \in DOMAIN done :
              /\ done[k].item = k - 1
              /\ done[k].outcome.threw =>
                    RecordsOf(k - 1) = <<[json |-> ("error" :> done[k].outcome.message),
                                          pairedItem |-> [item |-> k - 1]]>>
        /\ pc = "returned" =>
              i = nItems /\ output = [returned |-> TRUE, value |-> <<returnData>>]

C2_Witness ==
    /\ continueOnFail
    /\ pc = "returned"
    /\ nItems = 2
    /\ done[1].outcome.threw
    /\ done[1].handler = "getEpisodeDetails"
    /\ ~done[2].outcome.threw
    /\ Len(RecordsOf(1)) = 2

\* C3: without continue-on-fail, a failed item is the last one processed: execute
\* rejects with that item's error, no later item is read or requested, and nothing
\* is returned, the records of earlier items included.
C3_FirstFailureAborts ==
    ~continueOnFail =>
        /\ \A k \in DOMAIN done :
              done[k].outcome.threw =>
                  /\ k = Len(done)
                  /\ pc = "thrown"
                  /\ thrown = done[k].outcome
        /\ pc = "thrown" =>
              /\ Len(done) = i + 1
              /\ \A k \in DOMAIN done : done[k].item <= i
              /\ done[Len(done)].outcome.threw
              /\ output = NoOutput
        /\ pc # "thrown" => thrown = NoError

C3_Witness ==
    /\ ~continueOnFail
    /\ pc = "thrown"
    /\ nItems = 2
    /\ i = 0
    /\ Len(done) = 1
    /\ done[1].handler = "getLatestEpisodes"

\* whether the parameters of an item pass the checks of its operation
ParametersValid(handler, p) ==
    CASE handler = "getPodcastDetails" ->
            /\ p.identifier # <<>>
            /\ p.identifierType = "uuid" => validateUuid(p.identifier)
            /\ p.identifierType = "itunesId" => validateItunesId(p.identifier)
            /\ p.identifierType = "rssUrl" => validateUrl(p.identifier)
      [] handler = "getEpisodeDetails" ->
            /\ p.identifier # <<>>
            /\ p.identifierType = "uuid" => validateUuid(p.identifier)
      [] handler = "getPopularContent" ->
            p.language = <<>> \/ validateLanguageCode(p.language)
      [] handler = "getLatestEpisodes" ->
            /\ p.uuidsString # <<>>
            /\ \A k \in DOMAIN SplitTrim(p.uuidsString) :
                  validateUuid(SplitTrim(p.uuidsString)[k])
      [] handler = "getTranscript" -> p.episodeUuid # <<>> /\ validateUuid(p.episodeUuid)
      [] handler = "getTopChartsByCountry" -> TRUE
      [] handler = "getTopChartsByGenres" ->
            /\ Len(p.genres) > 0
            /\ ~(p.filterByCountry # <<>> /\ p.contentType = "PODCASTSERIES")

Positions(events, e) == {n \in DOMAIN events : events[n].e = e}

\* C4: for every item of each of the eight operations: when a check of the
\* parameters fails there is no request; otherwise there is exactly one request,
\* after the checks have passed and before the normalization of the response.
C4_OneRequestAfterValidation ==
    \A k \in DOMAIN done :
        done[k].handler # "unknown" =>
            LET ev == done[k].events
                requests == Positions(ev, "request")
                failed == \E n \in Positions(ev, "validate") : ~ev[n].ok
            IN  /\ done[k].handler # "searchContent" =>
                      (failed <=> ~ParametersValid(done[k].handler, done[k].params))
                /\ failed => requests = {} /\ done[k].outcome.threw
                /\ ~failed =>
                      /\ Cardinality(requests) = 1
                      /\ \A r \in requests :
                            /\ \E n \in Positions(ev, "validate") : n < r /\ ev[n].ok
                            /\ \A n \in Positions(ev, "read") : n < r
                            /\ \A n \in Positions(ev, "normalize") : n > r

C4_Witness ==
    /\ Len(done) = 2
    /\ done[1].handler = "getTranscript"
    /\ done[1].params.episodeUuid = MalformedUuid
    /\ Positions(done[1].events, "request") = {}
    /\ done[2].handler = "searchContent"
    /\ Cardinality(Positions(done[2].events, "request")) = 1
    /\ Positions(done[2].events, "normalize") # {}

----------------------------------------------------------------------------
(* The transport wrapper exercised on the replies a query can get *)

QuerySamples ==
    {buildGetEpisodeTranscriptQuery(SampleUuid, FALSE),
     buildGetLatestEpisodesQuery(<<SampleUuid>>, DefaultResponseFields),
     buildGetPodcastSeriesQuery(<<"1", "2">>, "itunesId", DefaultResponseFields,
                                FALSE, FALSE, DefaultResponseFields)}

ErrorSamples ==
    {[message |-> <<"Query too complex">>], [message |-> <<"Rate limit exceeded">>],
     [message |-> <<"Unknown argument">>]}

ConnectionRefused ==
    [kind |-> "rejected",
     error |-> [message |-> Msg("connect ECONNREFUSED"), response |-> Undefined]]

ReplySamples ==
    {Unauthorized, ConnectionRefused}
    \cup {Resolved(Opt("errors", errors) @@ Opt("data", data)) :
            errors \in OptArrays(ErrorSamples, MaxErrors),
            data \in {Undefined, Null, Obj("getPodcastSeries" :> Obj([uuid |-> "u1"]))}}

InitGql ==
    /\ ExecIdle
    /\ args \in [query : QuerySamples, reply : ReplySamples]
    /\ called = NotCalled
    /\ result = <<>>

CallExecuteGraphQLQuery ==
    /\ called = NotCalled
    /\ called' = [fn |-> "executeGraphQLQuery"]
    /\ result' = executeGraphQLQuery(args.query, args.reply)
    /\ UNCHANGED <<args, execVars>>

NextGql == CallExecuteGraphQLQuery

SpecGql == InitGql /\ [][NextGql]_vars

\* part occurs in whole as a contiguous run
IsInfix(part, whole) ==
    \E at \in 0..(Len(whole) - Len(part)) : SubSeq(whole, at + 1, at + Len(part)) = part

\* the reply under test carries a non-empty errors array
HasErrors ==
    /\ args.reply.kind = "resolved"
    /\ Get(args.reply.response, "errors").k = "array"
    /\ Len(args.reply.response["errors"].v) > 0

\* C9: a response with a non-empty errors array makes executeGraphQLQuery fail,
\* with or without data in the response; the failure message holds the messages of
\* all the errors, joined in order with ', ', and the query that was sent.
C9_ErrorsAlwaysFail ==
    called.fn = "executeGraphQLQuery" /\ HasErrors =>
        LET errors == args.reply.response["errors"].v
        IN  /\ result.threw
            /\ result.message.query = args.query
            /\ \A k \in DOMAIN errors :
                  IsInfix(errors[k].message, result.message.message.errorDetails)
            /\ result.message.message.errorDetails =
                  JoinWith([k \in DOMAIN errors |-> errors[k].message], <<", ">>)

C9_Witness ==
    /\ called.fn = "executeGraphQLQuery"
    /\ HasErrors
    /\ Len(args.reply.response["errors"].v) = 2
    /\ Get(args.reply.response, "data").k = "object"
    /\ result.threw
    /\ result.message.query = args.query

----------------------------------------------------------------------------
(* Pagination clamping exercised on integers and absent values *)

PageInputs == {Undefined} \cup {Num(n) : n \in (-MaxPage..MaxPage) \cup {999, 1001}}

InitPag ==
    /\ ExecIdle
    /\ args \in [page : PageInputs, limitPerPage : PageInputs]
    /\ called = NotCalled
    /\ result = <<>>

CallValidatePaginationParams ==
    /\ called = NotCalled
    /\ called' = [fn |-> "validatePaginationParams"]
    /\ result' = validatePaginationParams(args.page, args.limitPerPage)
    /\ UNCHANGED <<args, execVars>>

NextPag == CallValidatePaginationParams

SpecPag == InitPag /\ [][NextPag]_vars

\* C10: for every integer or absent page and limit, validatePaginationParams
\* returns a page in 1..20 and a limit in 1..25; for (-5, 999) it returns (1, 25).
C10_PaginationAlwaysInRange ==
    called.fn = "validatePaginationParams" =>
        /\ result.page \in 1..20
        /\ result.limitPerPage \in 1..25
        /\ args.page = Num(-5) /\ args.limitPerPage = Num(999) =>
              result = [page |-> 1, limitPerPage |-> 25]

C10_Witness ==
    /\ called.fn = "validatePaginationParams"
    /\ args.page = Num(-5)
    /\ args.limitPerPage = Num(999)
    /\ result = [page |-> 1, limitPerPage |-> 25]

\* C11: validatePaginationParams clamps: for every supplied integer page p and
\* limit l it returns page = min(20, max(1, p)) and limitPerPage =
\* min(25, max(1, l)), and substitutes the defaults 1 and 10 only for an absent value.
C11_ClampsEverySuppliedInteger ==
    called.fn = "validatePaginationParams" =>
        /\ result.page = IF args.page = Undefined THEN 1
                         ELSE Min(20, Max(1, args.page.v))
        /\ result.limitPerPage = IF args.limitPerPage = Undefined THEN 10
                                 ELSE Min(25, Max(1, args.limitPerPage.v))

----------------------------------------------------------------------------
(* The search inputs: the parameters of one search item handed to the      *)
(* search handler, and SearchFilters handed to buildSearchQuery directly.  *)

MaxTermLen == 2
MaxExcludeLen == 3
MaxTypes == 2
MaxLanguages == 2

TermChars == {"a", " ", "\"", "\t", "-"}

ExcludeChars == {"x", ",", " ", "\""}

\* short terms, and terms around the 500 character limit
TermSamples == BSeq(TermChars, MaxTermLen) \cup {Rep("a", n) : n \in {497, 500, 501}}

ExcludeSamples == BSeq(ExcludeChars, MaxExcludeLen)

ContentTypeSamples == BSeq({"PODCASTSERIES", "PODCASTEPISODE", "COMICSERIES"}, MaxTypes)

LanguageLists == BSeq({<<"e", "n">>, <<"f", "r">>, <<"e", "s">>}, MaxLanguages)

DateTexts == {<<"1", "9", "7", "0", "-", "0", "1", "-", "0", "2">>, <<"s", "o", "o", "n">>}

DateKeys ==
    {"filterForPublishedAfter", "filterForPublishedBefore",
     "filterForLastUpdatedAfter", "filterForLastUpdatedBefore"}

ListKeys == {"filterForCountries", "filterForGenres", "filterForSeriesUuids"}

NumberKeys ==
    {"filterForDurationLessThan", "filterForDurationGreaterThan",
     "filterForTotalEpisodesLessThan", "filterForTotalEpisodesGreaterThan"}

FlagKeys == {"filterForHasTranscript", "filterForHasChapters", "isSafeMode"}

\* a valid value of a list filter, as the list the filters carry
ListSample(key) ==
    CASE key = "filterForCountries" -> <<<<"U", "S">>>>
      [] key = "filterForGenres" -> <<<<"PODCASTSERIES_NEWS">>>>
      [] key = "filterForSeriesUuids" -> <<SampleUuid>>

\* Additional Options with several filters at once, some of them invalid
OptionBundles ==
    {("filterForCountries" :> c) @@ u @@ n :
        c \in {<<"U", "S", ",", "u", "k">>, <<"u", "k", ",", " ", "U">>},
        u \in {EmptyObject, "filterForSeriesUuids" :> MalformedUuid},
        n \in {EmptyObject, "filterForDurationLessThan" :> -5}}

\* the Additional Options collection of a search item
OptionSamples ==
    {EmptyObject}
    \cup {"filterForLanguages" :> JoinWith(l, <<",", " ">>) : l \in LanguageLists \ {<<>>}}
    \cup {key :> JoinWith(ListSample(key), <<",">>) : key \in ListKeys}
    \cup {"filterForPodcastContentType" :> <<"AUDIO">>}
    \cup {key :> d : key \in DateKeys, d \in DateTexts}
    \cup {key :> 3600 : key \in NumberKeys}
    \cup {key :> b : key \in FlagKeys, b \in BOOLEAN}
    \cup OptionBundles

SearchItems ==
    {[SearchParameterBase EXCEPT !.searchTerm = t, !.excludeTerms = e] :
        t \in TermSamples, e \in ExcludeSamples}
    \cup
    {[SearchParameterBase EXCEPT !.contentTypes = c, !.additionalOptions = o] :
        c \in ContentTypeSamples, o \in OptionSamples}

\* SearchFilters with several filters at once, some of them invalid; NaN is
\* the epoch of a date text that does not parse
FilterBundles ==
    LET list(key, l) == IF l = <<>> THEN EmptyObject ELSE key :> l
    IN  {list("filterForCountries", c) @@ list("filterForLanguages", l)
         @@ list("filterForSeriesUuids", u) @@ d @@ n :
            c \in {<<>>, <<<<"U", "S">>>>, <<<<"u", "k">>>>, <<<<"u", "k">>, <<"U">>>>},
            l \in {<<>>, <<<<"E", "N">>>>},
            u \in {<<>>, <<MalformedUuid>>},
            d \in {EmptyObject, "filterForPublishedAfter" :> Num(86400),
                   "filterForLastUpdatedBefore" :> NaN},
            n \in {EmptyObject, "filterForDurationLessThan" :> 3600,
                   "filterForDurationLessThan" :> -5,
                   "filterForDurationGreaterThan" :> 90000}}

\* SearchFilters objects
FilterSamples ==
    {EmptyObject}
    \cup {"filterForTypes" :> c : c \in ContentTypeSamples}
    \cup {"filterForLanguages" :> l : l \in LanguageLists}
    \cup {key :> ListSample(key) : key \in ListKeys}
    \cup {"filterForPodcastContentType" :> <<"AUDIO">>}
    \cup {key :> Num(86400) : key \in DateKeys}
    \cup {key :> 3600 : key \in NumberKeys}
    \cup {key :> b : key \in FlagKeys, b \in BOOLEAN}
    \cup FilterBundles

SearchOptionsSample ==
    [term |-> <<"a", "i">>, page |-> 1, limitPerPage |-> 10,
     sortBy |-> "POPULARITY", matchType |-> "MOST_TERMS"]

QueryInputs ==
    {[options |-> SearchOptionsSample, filters |-> f, responseFields |-> DefaultResponseFields] :
        f \in FilterSamples}

InitSearch ==
    /\ ExecIdle
    /\ args \in SearchItems \cup QueryInputs
    /\ called = NotCalled
    /\ result = <<>>

CallSanitizeSearchTerm ==
    /\ called = NotCalled
    /\ "searchTerm" \in DOMAIN args
    /\ called' = [fn |-> "sanitizeSearchTerm"]
    /\ result' = sanitizeSearchTerm(args.searchTerm)
    /\ UNCHANGED <<args, execVars>>

CallExecuteSearchContent ==
    /\ called = NotCalled
    /\ "searchTerm" \in DOMAIN args
    /\ \E reply \in Replies("searchContent") :
          result' = executeSearchContent(args, reply)
    /\ called' = [fn |-> "executeSearchContent"]
    /\ UNCHANGED <<args, execVars>>

CallBuildSearchQuery ==
    /\ called = NotCalled
    /\ "filters" \in DOMAIN args
    /\ called' = [fn |-> "buildSearchQuery"]
    /\ result' = buildSearchQuery(args.options, args.filters, args.responseFields)
    /\ UNCHANGED <<args, execVars>>

CallValidateFilterValues ==
    /\ called = NotCalled
    /\ "filters" \in DOMAIN args
    /\ called' = [fn |-> "validateFilterValues"]
    /\ result' = validateFilterValues(args.filters)
    /\ UNCHANGED <<args, execVars>>

NextSearch ==
    \/ CallSanitizeSearchTerm
    \/ CallExecuteSearchContent
    \/ CallBuildSearchQuery
    \/ CallValidateFilterValues

SpecSearch == InitSearch /\ [][NextSearch]_vars

\* C12: sanitizeSearchTerm is idempotent, and its result holds none of the
\* characters double quote, backslash, newline, carriage return and tab and has
\* no leading or trailing whitespace.
C12_SanitizeIdempotentAndClean ==
    called.fn = "sanitizeSearchTerm" =>
        /\ sanitizeSearchTerm(result) = result
        /\ \A k \in DOMAIN result : result[k] \notin {"\"", "\\", "\n", "\r", "\t"}
        /\ result # <<>> => result[1] \notin Whitespace /\ result[Len(result)] \notin Whitespace

C12_Witness ==
    /\ called.fn = "sanitizeSearchTerm"
    /\ args.searchTerm = <<"\t", "a">>
    /\ result = <<"a">>

\* the search queries a handler result sent, and the term a search query carries
RequestsOf(r) ==
    {r.events[k].query : k \in {j \in DOMAIN r.events : r.events[j].e = "request"}}

TermOf(query) == SubSeq(query.params[1], 4, Len(query.params[1]) - 1)

\* C13: every search query that is sent carries a term that is the sanitized
\* final search term, is 1 to 500 characters long and holds none of the stripped
\* characters; a final search term whose sanitized length is 0 or above 500
\* raises the search term validation error and no request is sent.
C13_SentTermIsSanitizedAndBounded ==
    called.fn = "executeSearchContent" =>
        LET clean == sanitizeSearchTerm(finalSearchTermOf(args.searchTerm, args.excludeTerms))
        IN  /\ \A q \in RequestsOf(result) :
                  /\ q.params[1][1] = "term"
                  /\ TermOf(q) = clean
                  /\ Len(TermOf(q)) \in 1..500
                  /\ \A k \in DOMAIN TermOf(q) :
                        TermOf(q)[k] \notin {"\"", "\\", "\n", "\r", "\t"}
            /\ Len(clean) \notin 1..500 =>
                  /\ RequestsOf(result) = {}
                  /\ result.outcome.threw
                  /\ result.outcome.message =
                        Msg("Invalid search term. Must be 1-500 characters.")

C13_Witness ==
    /\ called.fn = "executeSearchContent"
    /\ args.searchTerm = Rep("a", 497)
    /\ args.excludeTerms = <<"x">>
    /\ \E q \in RequestsOf(result) : Len(TermOf(q)) = 500

\* " -entry" for each non-empty trimmed entry of the exclude field, in order
ExcludeSuffix(excludeTerms) ==
    LET entries == SplitTrim(excludeTerms)
        kept == SelectSeq(entries, LAMBDA t : t # <<>>)
    IN  JoinWith([k \in DOMAIN kept |-> <<" ", "-">> \o kept[k]], <<>>)

\* the same search with the exclusions written by hand into the search term
ByHand(p) ==
    [p EXCEPT !.searchTerm = p.searchTerm \o ExcludeSuffix(p.excludeTerms),
              !.excludeTerms = <<>>]

ArgsNamed(query, name) == SelectSeq(query.params, LAMBDA a : a[1] = name)

\* the one argument a list of rendered elements must produce under the name
ListRenderedAs(query, name, elements) ==
    ArgsNamed(query, name) =
        IF Len(elements) = 0 THEN <<>>
        ELSE IF Len(elements) = 1 THEN <<<<name, ": ">> \o elements[1]>>
        ELSE <<<<name, ": ", "[">> \o JoinWith(elements, <<", ">>) \o <<"]">>>>

LanguageEnumsOf(codes) == [k \in DOMAIN codes |-> mapLanguageCode(codes[k])]

\* C14: in the search query a filterForTypes or filterForLanguages list of one
\* element is rendered as a bare scalar, a list of two or more elements as a
\* bracketed comma-separated list in input order, and a list of zero elements
\* is not rendered at all.
C14_ScalarOrBracketedList ==
    /\ called.fn = "buildSearchQuery" =>
          /\ ListRenderedAs(result, "filterForTypes",
                 IF "filterForTypes" \in DOMAIN args.filters
                 THEN Tokens(args.filters["filterForTypes"]) ELSE <<>>)
          /\ ListRenderedAs(result, "filterForLanguages",
                 IF "filterForLanguages" \in DOMAIN args.filters
                 THEN LanguageEnumsOf(args.filters["filterForLanguages"]) ELSE <<>>)
    /\ called.fn = "executeSearchContent" =>
          \A q \in RequestsOf(result) :
              /\ ListRenderedAs(q, "filterForTypes", Tokens(args.contentTypes))
              /\ ListRenderedAs(q, "filterForLanguages",
                     IF "filterForLanguages" \in DOMAIN args.additionalOptions
                     THEN LanguageEnumsOf(SplitTrim(args.additionalOptions["filterForLanguages"]))
                     ELSE <<>>)

C14_Witness ==
    /\ called.fn = "buildSearchQuery"
    /\ args.filters = ("filterForTypes" :> <<"PODCASTSERIES", "PODCASTEPISODE">>)
    /\ ArgsNamed(result, "filterForTypes") =
          <<<<"filterForTypes", ": ", "[", "PODCASTSERIES", ", ", "PODCASTEPISODE", "]">>>>

\* the response selection of the query opens a top-level block of that name
HasTopLevelBlock(query, name) ==
    \E k \in DOMAIN query.selection : query.selection[k] = Line(0, name \o " {")

\* the blocks the content types ask for; none given asks for both
BlocksFollowTypes(query, given, types) ==
    /\ HasTopLevelBlock(query, "podcastSeries") <=>
          (~given \/ types = <<>> \/ Includes(types, "PODCASTSERIES"))
    /\ HasTopLevelBlock(query, "podcastEpisodes") <=>
          (~given \/ types = <<>> \/ Includes(types, "PODCASTEPISODE"))

\* C15: the response selection of a search query has a top-level podcast-series
\* block exactly when PODCASTSERIES is among the requested content types and an
\* episode block exactly when PODCASTEPISODE is; when no content type is given
\* (the list is absent or has no selected entry) both blocks are included.
C15_BlocksFollowContentTypes ==
    /\ called.fn = "buildSearchQuery" =>
          BlocksFollowTypes(result, "filterForTypes" \in DOMAIN args.filters,
                            IF "filterForTypes" \in DOMAIN args.filters
                            THEN args.filters["filterForTypes"] ELSE <<>>)
    /\ called.fn = "executeSearchContent" =>
          \A q \in RequestsOf(result) : BlocksFollowTypes(q, TRUE, args.contentTypes)

\* the fields the claim names as belonging to one schema only
EpisodeOnlyNamed == {"audioUrl", "duration", "episodeNumber", "seasonNumber", "datePublished"}

PodcastOnlyNamed == {"rssUrl", "itunesId", "totalEpisodeCount"}

RendersPodcastSeries ==
    \/ called.fn = "buildPodcastSeriesFieldSelection"
    \/ called.fn = "buildFieldSelection" /\ called.contentType = "podcastSeries"

RendersEpisode ==
    \/ called.fn = "buildEpisodeFieldSelection"
    \/ called.fn = "buildFieldSelection" /\ called.contentType = "podcastEpisodes"

\* C17: schema-incompatible fields are dropped: a podcast-series rendering holds
\* none of the episode-only fields (audioUrl, duration, episodeNumber,
\* seasonNumber, datePublished), and an episode rendering holds none of the
\* podcast-only fields (rssUrl, itunesId, totalEpisodeCount), for the generic
\* and for the entity-specific selection functions.
C17_IncompatibleFieldsDropped ==
    /\ RendersPodcastSeries =>
          \A k \in DOMAIN OwnFields(result) : OwnFields(result)[k] \notin EpisodeOnlyNamed
    /\ RendersEpisode =>
          \A k \in DOMAIN OwnFields(result) : OwnFields(result)[k] \notin PodcastOnlyNamed

\* the optional filters of SearchFilters
OptionalFilterKeys ==
    {"filterForLanguages", "filterForPodcastContentType"}
    \cup ListKeys \cup DateKeys \cup NumberKeys \cup FlagKeys

\* C18: every optional filter present in SearchFilters (countries, languages,
\* genres, series UUIDs, podcast content type, published and last-updated
\* bounds, duration bounds, episode-count bounds, transcript and chapter flags,
\* safe mode) is rendered as an argument of the search query.
C18_EveryPresentFilterRendered ==
    called.fn = "buildSearchQuery" =>
        \A key \in OptionalFilterKeys \cap DOMAIN args.filters :
            (key \in ListKeys \cup {"filterForLanguages"} => args.filters[key] # <<>>)
                => ArgsNamed(result, key) # <<>>

\* the items settled by get-top-charts-by-genres with a country filter
GenresWithCountry(contentType) ==
    {k \in DOMAIN done :
        /\ done[k].handler = "getTopChartsByGenres"
        /\ done[k].params.contentType = contentType
        /\ done[k].params.filterByCountry # <<>>}

RejectedBeforeRequest(d) ==
    /\ Positions(d.events, "request") = {}
    /\ \E n \in Positions(d.events, "validate") : ~d.events[n].ok
    /\ d.outcome.threw

UnparseableDateKeys(p) ==
    {key \in DateKeys \cap DOMAIN p.additionalOptions :
        /\ p.additionalOptions[key] # <<>>
        /\ p.additionalOptions[key] \notin DOMAIN ParseableDates}

\* C20: a published or last-updated date filter whose text cannot be parsed as
\* a date ends the search item with a filter validation error and no request is
\* sent; it is never silently ignored.
C20_UnparseableDateIsRejected ==
    (called.fn = "executeSearchContent" /\ UnparseableDateKeys(args) # {}) =>
        /\ RequestsOf(result) = {}
        /\ result.outcome.threw

\* the number of values of a filter bundle that fail their check: the invalid
\* country codes, language codes and series UUIDs, the date bounds that are no
\* date and the duration bounds out of range
FailingValues(filters) ==
    LET failing(key, valid(_)) ==
            IF key \in DOMAIN filters
            THEN Len(SelectSeq(filters[key], LAMBDA x : ~valid(x))) ELSE 0
        dates == {key \in DateKeys \cap DOMAIN filters : filters[key].k # "number"}
        durations == {key \in {"filterForDurationLessThan", "filterForDurationGreaterThan"}
                               \cap DOMAIN filters : ~validateDuration(filters[key])}
    IN  failing("filterForCountries", validateCountryCode)
        + failing("filterForLanguages", validateLanguageCode)
        + failing("filterForSeriesUuids", validateUuid)
        + Cardinality(dates) + Cardinality(durations)

\* C21: validateFilterValues aggregates: it returns one error for every invalid
\* country code, language code and series UUID and for every invalid date or
\* duration bound of the bundle (k failing values give k errors, none gives the
\* empty list), and the search operation reports all of them in one validation
\* error, without a request.
C21_OneErrorPerFailingValue ==
    /\ called.fn = "validateFilterValues" => Len(result) = FailingValues(args.filters)
    /\ (/\ called.fn = "executeSearchContent"
        /\ validateSearchTerm(finalSearchTermOf(args.searchTerm, args.excludeTerms))
        /\ FailingValues(buildSearchFilters(args)) > 0) =>
          /\ RequestsOf(result) = {}
          /\ result.outcome.threw
          /\ "validationErrors" \in DOMAIN result.outcome.message
          /\ Len(result.outcome.message.validationErrors)
                = FailingValues(buildSearchFilters(args))

IdentifierHandlers ==
    {"getPodcastDetails", "getEpisodeDetails", "getTranscript", "getLatestEpisodes"}

TopLevelBlocks(query) ==
    {k \in DOMAIN query.selection :
        /\ query.selection[k].d = 0
        /\ query.selection[k].s \notin {"topChartsId", "}"}}

\* C23: the response selection of both top-charts queries holds, besides the
\* chart identifier, exactly one top-level block: the podcast-series block when
\* the content type is PODCASTSERIES and the episode block when it is
\* PODCASTEPISODE, never both and never neither.
C23_TopChartsHasExactlyOneBlock ==
    \A k \in DOMAIN done :
        done[k].handler \in {"getTopChartsByCountry", "getTopChartsByGenres"} =>
            \A q \in RequestsOf(done[k]) :
                /\ q.selection[1] = Line(0, "topChartsId")
                /\ Cardinality(TopLevelBlocks(q)) = 1
                /\ HasTopLevelBlock(q, "podcastSeries")
                      <=> done[k].params.contentType = "PODCASTSERIES"
                /\ HasTopLevelBlock(q, "podcastEpisodes")
                      <=> done[k].params.contentType = "PODCASTEPISODE"

C23_Witness ==
    /\ \E k \in DOMAIN done :
          /\ done[k].handler = "getTopChartsByCountry"
          /\ done[k].params.contentType = "PODCASTSERIES"
          /\ \E q \in RequestsOf(done[k]) :
                HasTopLevelBlock(q, "podcastSeries") /\ ~HasTopLevelBlock(q, "podcastEpisodes")
    /\ \E k \in DOMAIN done :
          /\ done[k].handler = "getTopChartsByGenres"
          /\ done[k].params.contentType = "PODCASTEPISODE"
          /\ \E q \in RequestsOf(done[k]) :
                HasTopLevelBlock(q, "podcastEpisodes") /\ ~HasTopLevelBlock(q, "podcastSeries")

\* the number of elements of a nested list of an object, none when it is absent
ListLen(o, key) == IF Truthy(Get(o, key)) THEN Len(o[key].v) ELSE 0

\* every emitted item carries the identifier in `metadata` and not at its top level
MetadataAttached(root, idKey, listKeys) ==
    /\ ~result.threw
    /\ IsArray(result.value)
    /\ Len(result.value.v) =
          (IF "podcastSeries" \in listKeys THEN ListLen(root, "podcastSeries") ELSE 0)
          + (IF "podcastEpisodes" \in listKeys THEN ListLen(root, "podcastEpisodes") ELSE 0)
    /\ \A n \in DOMAIN result.value.v :
          LET item == result.value.v[n]
          IN  /\ "metadata" \in DOMAIN item
              /\ item["metadata"] = Prop(root, idKey, idKey)
              /\ idKey \notin DOMAIN item

\* C24: for get-popular-content and both top-charts operations every emitted
\* item carries a `metadata` sub-object whose popularityRankId (respectively
\* topChartsId) is the identifier of the response root, the identifier is not
\* flattened into the item's own fields, and the number of emitted items is the
\* total number of elements of the nested lists present in the response.
C24_IdentifierInMetadata ==
    /\ (called.fn = "processPopularContentResults"
        /\ Truthy(Get(args.data, "getPopularContent"))) =>
          MetadataAttached(args.data["getPopularContent"].v, "popularityRankId",
                           {"podcastSeries"})
    /\ \A op \in {"ByCountry", "ByGenres"} :
          (called.fn = "processTopChartsResults" /\ args.op = "topCharts" \o op
           /\ Truthy(Get(args.data, "getTopCharts" \o op))) =>
              MetadataAttached(args.data["getTopCharts" \o op].v, "topChartsId",
                               {"podcastSeries", "podcastEpisodes"})

C24_Witness ==
    /\ called.fn = "processTopChartsResults"
    /\ args.op = "topChartsByGenres"
    /\ ~result.threw
    /\ Len(result.value.v) = 3
    /\ \A n \in 1..3 : result.value.v[n]["metadata"] = [topChartsId |-> "c1"]
    /\ result.value.v[3]["type"] = "episode"

\* the lines of the nested episodes block of a podcast selection, which closes it
NestedEpisodeLines(sel) ==
    LET open == CHOOSE k \in DOMAIN sel : sel[k] = Line(0, "episodes {")
    IN  SubSeq(sel, open + 1, Len(sel) - 1)

\* C25: when a podcast selection embeds its episodes, the nested episodes block
\* is built with the parent context disabled: for every episode field list it
\* holds the episode's own fields, 'uuid' among them, and never a podcastSeries,
\* transcript or chapters entry, so nothing is nested below the episode fields.
C25_NestedEpisodesHaveNoParentContext ==
    (called.fn = "buildPodcastSeriesFieldSelection" /\ called.includeEpisodes) =>
        /\ Cardinality({k \in DOMAIN result : result[k] = Line(0, "episodes {")}) = 1
        /\ result[Len(result)] = Line(0, "}")
        /\ LET nested == NestedEpisodeLines(result)
           IN  /\ \E n \in DOMAIN nested : nested[n] = Line(1, "uuid")
               /\ \A n \in DOMAIN nested :
                     /\ nested[n].d = 1
                     /\ nested[n].s \in PODCAST_EPISODE_FIELDS
                     /\ nested[n].s \notin {"podcastSeries", "transcript", "chapters"}
                     /\ nested[n].s = "uuid" \/ Includes(called.episodeFields, nested[n].s)

C25_Witness ==
    /\ called.fn = "buildPodcastSeriesFieldSelection"
    /\ called.includeEpisodes
    /\ called.episodeFields = <<"podcastSeries", "name">>
    /\ NestedEpisodeLines(result) = <<Line(1, "uuid"), Line(1, "name")>>

\* the record keeps every field of its source item and carries the tag as `type`
KeepsFieldsAndTag(r, item, tag) ==
    /\ \A f \in DOMAIN item : f \in DOMAIN r /\ r[f] = item[f]
    /\ "type" \in DOMAIN r
    /\ r["type"] = tag

\* the records of a result list from position `from` on are those of the list
ListKeepsFieldsAndTag(out, from, list, tag) ==
    \A n \in DOMAIN list :
        from + n \in DOMAIN out /\ KeepsFieldsAndTag(out[from + n], list[n], tag)

\* C26: every entity record a normalizer emits (search, get-podcast,
\* get-episode, popular, latest, transcript, top charts) carries all fields of
\* its source item unmodified and a `type` equal to the tag of the list it was
\* taken from, whatever fields the source item itself has.
C26_RecordsKeepFieldsAndTag ==
    (called # NotCalled /\ ~result.threw) =>
        LET root(name) == Get(args.data, name)
            list(name, key) == ListOf(root(name).v, key)
            out == result.value.v
        IN  /\ called.fn = "processSearchResults" /\ Truthy(root("search")) =>
                  /\ ListKeepsFieldsAndTag(out, 1, list("search", "podcastSeries"), "podcast")
                  /\ ListKeepsFieldsAndTag(out, 1 + Len(list("search", "podcastSeries")),
                                           list("search", "podcastEpisodes"), "episode")
            /\ called.fn = "processPodcastSeriesResult" =>
                  KeepsFieldsAndTag(out, root("getPodcastSeries").v, "podcast")
            /\ called.fn = "processEpisodeResult" =>
                  KeepsFieldsAndTag(out, root("getPodcastEpisode").v, "episode")
            /\ called.fn = "processLatestEpisodesResults"
                 /\ IsArray(root("getLatestPodcastEpisodes")) =>
                  ListKeepsFieldsAndTag(out, 0, root("getLatestPodcastEpisodes").v, "episode")
            /\ called.fn = "processTranscriptResult" =>
                  ListKeepsFieldsAndTag(out, 0, root("getEpisodeTranscript").v,
                                        "transcript_item")
            /\ called.fn = "processPopularContentResults"
                 /\ Truthy(root("getPopularContent")) =>
                  ListKeepsFieldsAndTag(out, 0, list("getPopularContent", "podcastSeries"),
                                        "podcast")
            /\ \A op \in {"ByCountry", "ByGenres"} :
                  (called.fn = "processTopChartsResults" /\ args.op = "topCharts" \o op
                   /\ Truthy(root("getTopCharts" \o op))) =>
                      /\ ListKeepsFieldsAndTag(out, 0,
                             list("getTopCharts" \o op, "podcastSeries"), "podcast")
                      /\ ListKeepsFieldsAndTag(out,
                             Len(list("getTopCharts" \o op, "podcastSeries")),
                             list("getTopCharts" \o op, "podcastEpisodes"), "episode")


\* the json values of the output records paired with an item, in output order
JsonsOf(item) == [k \in DOMAIN RecordsOf(item) |-> RecordsOf(item)[k].json]

\* C27: execute processes the items strictly in index order and flattens their
\* results: an array result is one output record per element in the array's
\* order (none for an empty array), a single object is exactly one record;
\* every output record is paired with the index of its item, and all records
\* of item i precede those of item j when i < j.
C27_InOrderAndFlattened ==
    /\ \A k \in DOMAIN done : done[k].item = k - 1
    /\ \A k \in DOMAIN returnData : returnData[k].pairedItem.item \in 0..(Len(done) - 1)
    /\ \A k, l \in DOMAIN returnData :
           k < l => returnData[k].pairedItem.item <= returnData[l].pairedItem.item
    /\ \A k \in DOMAIN done :
           ~done[k].outcome.threw =>
               LET value == done[k].outcome.value
               IN  IF value.k = "array"
                   THEN JsonsOf(done[k].item) = value.v
                   ELSE JsonsOf(done[k].item) = <<value.v>>

\* two items done, the first with an array of two elements, the second with an
\* empty array or a single object
C27_Witness ==
    /\ Len(done) >= 2
    /\ ~done[1].outcome.threw /\ ~done[2].outcome.threw
    /\ done[1].outcome.value.k = "array" /\ Len(done[1].outcome.value.v) = 2
    /\ done[1].outcome.value.v[1] # done[1].outcome.value.v[2]
    /\ Len(RecordsOf(0)) = 2
    /\ \/ done[2].outcome.value.k # "array" /\ Len(RecordsOf(1)) = 1
       \/ done[2].outcome.value = Arr(<<>>) /\ RecordsOf(1) = <<>>

\* the number of backslashes that stand immediately before position k
BackslashesBefore(text, k) ==
    LET others == {j \in 1..(k - 1) : text[j] # "\\"}
        last == IF others = {} THEN 0 ELSE CHOOSE m \in others : \A j \in others : j <= m
    IN  k - 1 - last

\* the character at position k is taken literally: an escape precedes it
EscapedAt(text, k) == BackslashesBefore(text, k) % 2 = 1

\* The value is one string literal from its first part to its last: no double
\* quote between its delimiters but an escaped one, no raw line break, and no
\* backslash that is neither escaped nor the start of an escape sequence.
IsOneLiteral(value) ==
    /\ Len(value) >= 2
    /\ value[1] = "\"" /\ value[Len(value)] = "\""
    /\ ~EscapedAt(value, Len(value))
    /\ \A k \in 2..(Len(value) - 1) :
          /\ value[k] \notin {"\n", "\r"}
          /\ value[k] = "\"" => EscapedAt(value, k)
          /\ value[k] = "\\" =>
                \/ EscapedAt(value, k)
                \/ /\ k + 1 < Len(value)
                   /\ value[k + 1] \in {"\"", "\\", "/", "b", "f", "n", "r", "t", "u"}

\* The value is a bracketed list of string literals separated by `, `: the
\* double quotes are exactly the delimiters of the entries.
IsLiteralList(value) ==
    LET quotes == {k \in DOMAIN value : value[k] = "\""}
        seps == {k \in DOMAIN value : value[k] = ", "}
    IN  /\ Len(value) >= 4
        /\ value[1] = "[" /\ value[Len(value)] = "]"
        /\ value[2] = "\"" /\ value[Len(value) - 1] = "\""
        /\ \A k \in seps : value[k - 1] = "\"" /\ value[k + 1] = "\""
        /\ Cardinality(quotes) = 2 * (Cardinality(seps) + 1)
        /\ \A k \in DOMAIN value : value[k] \notin {"\\", "\n", "\r"}

\* the arguments whose value is one string literal
LiteralArgs == {"term", "uuid", "guid", "name", "itunesId", "rssUrl"}

\* the value of a rendered argument `name: value`
ArgValue(arg) == SubSeq(arg, 3, Len(arg))

\* C28: every string literal embedded in a query that is sent (search term,
\* podcast or episode identifier of any type, transcript UUID, latest-episodes
\* UUIDs) holds no unescaped double quote, backslash or line break, whatever
\* input passed validation: a name or an RSS URL cannot end its literal.
C28_LiteralsCannotBeTerminated ==
    \A k \in DOMAIN done :
        \A n \in Positions(done[k].events, "request") :
            LET params == done[k].events[n].query.params
            IN  \A a \in DOMAIN params :
                    /\ params[a][1] \in LiteralArgs => IsOneLiteral(ArgValue(params[a]))
                    /\ params[a][1] = "uuids" => IsLiteralList(ArgValue(params[a]))

\* the handler and the query root of each of the eight resource.operation keys
operationHandlers ==
    (<<"search", "searchContent">> :> [handler |-> "searchContent", root |-> "search"])
    @@ (<<"podcast", "getDetails">> :>
            [handler |-> "getPodcastDetails", root |-> "getPodcastSeries"])
    @@ (<<"episode", "getDetails">> :>
            [handler |-> "getEpisodeDetails", root |-> "getPodcastEpisode"])
    @@ (<<"popular", "getPopular">> :>
            [handler |-> "getPopularContent", root |-> "getPopularContent"])
    @@ (<<"latest", "getLatest">> :>
            [handler |-> "getLatestEpisodes", root |-> "getLatestPodcastEpisodes"])
    @@ (<<"transcript", "getTranscript">> :>
            [handler |-> "getTranscript", root |-> "getEpisodeTranscript"])
    @@ (<<"topCharts", "getByCountry">> :>
            [handler |-> "getTopChartsByCountry", root |-> "getTopChartsByCountry"])
    @@ (<<"topCharts", "getByGenres">> :>
            [handler |-> "getTopChartsByGenres", root |-> "getTopChartsByGenres"])

\* the resource and operation parameters of a processed item
PairOf(d) == <<d.params.resource, d.params.operation>>

\* C29: execute routes each of the eight (resource, operation) pairs to exactly
\* its own handler; every other pair fails for that item with an
\* unknown-operation error and without any request, and the failure is handled
\* like any other per-item failure (one error record under continue-on-fail,
\* otherwise the run ends with that error).
C29_EachPairToItsOwnHandler ==
    \A k \in DOMAIN done :
        IF PairOf(done[k]) \in DOMAIN operationHandlers
        THEN /\ done[k].handler = operationHandlers[PairOf(done[k])].handler
             /\ \A n \in Positions(done[k].events, "request") :
                    done[k].events[n].query.root = operationHandlers[PairOf(done[k])].root
        ELSE /\ done[k].handler = "unknown"
             /\ Positions(done[k].events, "request") = {}
             /\ done[k].outcome.threw
             /\ done[k].outcome.message =
                    [template |-> "Unknown operation: ${resource}.${operation}",
                     resource |-> done[k].params.resource,
                     operation |-> done[k].params.operation]
             /\ done[k].item = k - 1
             /\ IF continueOnFail
                THEN RecordsOf(k - 1) = <<[json |-> ("error" :> done[k].outcome.message),
                                           pairedItem |-> [item |-> k - 1]]>>
                ELSE /\ pc = "thrown" /\ thrown = done[k].outcome
                     /\ k = Len(done)
                     /\ RecordsOf(k - 1) = <<>>

\* an unknown pair has failed under continue-on-fail, and the next item, a
\* get-episode lookup, has sent its request
C29_Witness ==
    /\ continueOnFail
    /\ Len(done) >= 2
    /\ PairOf(done[1]) = <<"search", "getDetails">>
    /\ done[1].outcome.threw
    /\ PairOf(done[2]) = <<"episode", "getDetails">>
    /\ Positions(done[2].events, "request") # {}

\* the transport call resolved, and the response has no `errors` field or an
\* empty errors array
NoErrors ==
    /\ args.reply.kind = "resolved"
    /\ \/ "errors" \notin DOMAIN args.reply.response
       \/ args.reply.response["errors"] = Arr(<<>>)

\* C30: when the transport call succeeds and the response carries no errors
\* (the errors field is absent or is an empty array), executeGraphQLQuery
\* returns the data field of the response and does not fail.
C30_NoErrorsReturnsData ==
    called.fn = "executeGraphQLQuery" /\ NoErrors =>
        /\ ~result.threw
        /\ result.value = Get(args.reply.response, "data")

====
